---- MODULE Spec2Model ----
(***************************************************************************)
(* TalkieWalkie: scan a QR code, resolve it to a voice agent, open a voice *)
(* session.  The model covers the payload resolver (agentMap.ts), the      *)
(* Scanner component, the two push-to-talk call screens (Vapi and          *)
(* ElevenLabs) and the multi-provider App orchestrator.                    *)
(*                                                                         *)
(* React state is modelled as it behaves: a setter changes the state       *)
(* value at once, the closures of the handlers and the refs written by     *)
(* effects change when the component renders.  A handler run from a DOM    *)
(* event renders before the next event; a handler run from a promise       *)
(* continuation, a backend event or the decoder callback renders later,    *)
(* in the step Render.                                                     *)
(***************************************************************************)
EXTENDS Integers, Sequences, FiniteSets, TLC

(***************************************************************************)
(* Bounds of the model.                                                    *)
(***************************************************************************)
\* The largest reset token; the most asynchronous operations outstanding at
\* a time: start calls pending on the call screen, backend events emitted and
\* not delivered, pending starts of discarded components.
MaxToken == 2
MaxPending == 2

\* The longest text the resolver and the lookup are given, before it is put
\* into a payload form.
MaxLen == 3

\* The most refreshPermissions calls in flight at once.
MaxRefresh == 2

\* The most video input devices the host lists.
MaxDevices == 2

(***************************************************************************)
(* Strings are sequences of one-character strings.  Null is the value the  *)
(* code writes null; no string equals it.                                  *)
(***************************************************************************)
Null == <<"null">>

Whitespace == {" "}

Digits == {"0", "1", "2", "3", "4", "5", "6", "7", "8", "9"}

RECURSIVE TrimStart(_)
TrimStart(s) ==
    IF s # <<>> /\ Head(s) \in Whitespace THEN TrimStart(Tail(s)) ELSE s

RECURSIVE TrimEnd(_)
TrimEnd(s) ==
    IF s # <<>> /\ s[Len(s)] \in Whitespace
    THEN TrimEnd(SubSeq(s, 1, Len(s) - 1))
    ELSE s

Trim(s) == TrimEnd(TrimStart(s))

StartsWith(s, p) == Len(s) >= Len(p) /\ SubSeq(s, 1, Len(p)) = p

\* s.split('/').pop(): the text after the last '/', the whole text without one.
RECURSIVE LastSegment(_)
LastSegment(s) ==
    IF \E i \in 1..Len(s) : s[i] = "/"
    THEN LastSegment(SubSeq(s, (CHOOSE i \in 1..Len(s) : s[i] = "/") + 1, Len(s)))
    ELSE s

LowerChar(c) ==
    CASE c = "R" -> "r"
      [] c = "I" -> "i"
      [] c = "O" -> "o"
      [] c = "X" -> "x"
      [] OTHER -> c

ToLowerCase(s) == [i \in 1..Len(s) |-> LowerChar(s[i])]

SchemePrefix == <<"t", "a", "l", "k", "i", "e", "w", "a", "l", "k", "i", "e", ":", "/", "/">>

AgentField == <<"a", "g", "e", "n", "t">>

ObjectText == <<"[", "o", "b", "j", "e", "c", "t", " ", "O", "b", "j", "e", "c", "t", "]">>

(***************************************************************************)
(* JSON.parse, for the texts the alphabet can write: objects whose members *)
(* are strings, numbers or objects.  A parse result is                     *)
(* [ok, next, has, val]: whether the text parses up to next, whether the   *)
(* object has an agent member, and String(member).                         *)
(***************************************************************************)
RECURSIVE SkipWs(_, _)
SkipWs(s, i) ==
    IF i <= Len(s) /\ s[i] \in Whitespace THEN SkipWs(s, i + 1) ELSE i

ParseFail == [ok |-> FALSE, next |-> 0, has |-> FALSE, val |-> <<>>]

\* A string literal starting at s[i] = '"': up to the next '"'.
ParseString(s, i) ==
    IF i <= Len(s) /\ s[i] = "\"" /\ \E j \in (i + 1)..Len(s) : s[j] = "\""
    THEN LET j == CHOOSE j \in (i + 1)..Len(s) :
                      s[j] = "\"" /\ \A k \in (i + 1)..(j - 1) : s[k] # "\""
         IN  [ok |-> TRUE, next |-> j + 1, has |-> FALSE, val |-> SubSeq(s, i + 1, j - 1)]
    ELSE ParseFail

RECURSIVE DigitsEnd(_, _)
DigitsEnd(s, i) ==
    IF i <= Len(s) /\ s[i] \in Digits THEN DigitsEnd(s, i + 1) ELSE i

\* A number: digits, without a leading zero before another digit.
ParseNumber(s, i) ==
    LET e == DigitsEnd(s, i)
    IN  IF e > i /\ ~(s[i] = "0" /\ e > i + 1)
        THEN [ok |-> TRUE, next |-> e, has |-> FALSE, val |-> SubSeq(s, i, e - 1)]
        ELSE ParseFail

RECURSIVE ParseValue(_, _)
RECURSIVE ParseMembers(_, _, _, _)
RECURSIVE ParseObject(_, _)

\* The members after position i; has/val carry the agent member seen so far.
ParseMembers(s, i, has, val) ==
    LET k == ParseString(s, SkipWs(s, i))
        c == SkipWs(s, k.next)
        v == ParseValue(s, SkipWs(s, c + 1))
        e == SkipWs(s, v.next)
        isAgent == k.val = AgentField
        has2 == has \/ isAgent
        val2 == IF isAgent THEN v.val ELSE val
    IN  IF ~k.ok \/ c > Len(s) \/ s[c] # ":" THEN ParseFail
        ELSE IF ~v.ok \/ e > Len(s) THEN ParseFail
        ELSE IF s[e] = "}" THEN [ok |-> TRUE, next |-> e + 1, has |-> has2, val |-> val2]
        ELSE IF s[e] = "," THEN ParseMembers(s, e + 1, has2, val2)
        ELSE ParseFail

ParseObject(s, i) ==
    LET j == SkipWs(s, i + 1)
    IN  IF i > Len(s) \/ s[i] # "{" \/ j > Len(s) THEN ParseFail
        ELSE IF s[j] = "}" THEN [ok |-> TRUE, next |-> j + 1, has |-> FALSE, val |-> <<>>]
        ELSE ParseMembers(s, j, FALSE, <<>>)

ParseValue(s, i) ==
    IF i > Len(s) THEN ParseFail
    ELSE IF s[i] = "\"" THEN ParseString(s, i)
    ELSE IF s[i] \in Digits THEN ParseNumber(s, i)
    ELSE IF s[i] = "{"
         THEN LET o == ParseObject(s, i)
              IN  IF o.ok THEN [ok |-> TRUE, next |-> o.next, has |-> FALSE, val |-> ObjectText]
                  ELSE ParseFail
    ELSE ParseFail

\* JSON.parse(text) of a text that starts with '{'; ok is FALSE where it throws.
JsonParse(s) ==
    LET o == ParseObject(s, 1)
    IN  IF o.ok /\ SkipWs(s, o.next) = Len(s) + 1 THEN o ELSE ParseFail

\* x || null
OrNull(s) == IF s = <<>> THEN Null ELSE s

resolveAgentKey_EmptyAgentKept(payload) ==
    IF payload = <<>> THEN Null
    ELSE LET trimmed == Trim(payload)
         IN  IF StartsWith(trimmed, SchemePrefix)
             THEN OrNull(Trim(LastSegment(trimmed)))
             ELSE IF StartsWith(trimmed, <<"{">>)
             THEN LET parsed == JsonParse(trimmed)
                  IN  IF ~parsed.ok THEN Null
                      ELSE IF parsed.has THEN Trim(parsed.val)
                      ELSE Null
             ELSE trimmed

resolveAgentKey_SegmentUntrimmed(payload) ==
    IF payload = <<>> THEN Null
    ELSE LET trimmed == Trim(payload)
         IN  IF StartsWith(trimmed, SchemePrefix)
             THEN OrNull(LastSegment(trimmed))
             ELSE IF StartsWith(trimmed, <<"{">>)
             THEN LET parsed == JsonParse(trimmed)
                  IN  IF ~parsed.ok THEN Null
                      ELSE IF parsed.has THEN OrNull(Trim(parsed.val))
                      ELSE Null
             ELSE trimmed

resolveAgentKey(payload) ==
    IF payload = <<>> THEN Null
    ELSE LET trimmed == Trim(payload)
         IN  IF StartsWith(trimmed, SchemePrefix)
             THEN OrNull(Trim(LastSegment(trimmed)))
             ELSE IF StartsWith(trimmed, <<"{">>)
             THEN LET parsed == JsonParse(trimmed)
                  IN  IF ~parsed.ok THEN Null
                      ELSE IF parsed.has THEN OrNull(Trim(parsed.val))
                      ELSE Null
             ELSE trimmed


(***************************************************************************)
(* agentMap.ts: the lookup tables and getAgentByKey.                       *)
(***************************************************************************)
NoAgent == [id |-> "null", label |-> "null"]

Rio == <<"r", "i", "o">>

AGENTS == [k \in {Rio} |-> [id |-> "1e171fee-c39d-4848-a6fd-2e658a442ff0", label |-> "RIO"]]

ELEVENLABS_AGENTS ==
    [k \in {Rio} |-> [id |-> "agent_1101k5skt77qetsstmz8x7j9t5pv", label |-> "RIO (ElevenLabs)"]]

createLookup(map) ==
    [k \in {ToLowerCase(x) : x \in DOMAIN map} |->
        map[CHOOSE x \in DOMAIN map : ToLowerCase(x) = k]]

VAPI_LOOKUP == createLookup(AGENTS)

ELEVENLABS_LOOKUP == createLookup(ELEVENLABS_AGENTS)

\* The lookup tables are plain objects (Object.fromEntries): lookup[name] also
\* finds what they inherit from Object.prototype.  These are the inherited
\* names that are their own lower-case form.
InheritedKeys ==
    { <<"c", "o", "n", "s", "t", "r", "u", "c", "t", "o", "r">>,
      <<"_", "_", "p", "r", "o", "t", "o", "_", "_">> }

\* What lookup[name] gives for an inherited name: the function Object, the
\* object Object.prototype.  Neither is null, neither has an id or a label.
Inherited == [id |-> "undefined", label |-> "undefined"]

getAgentByKey_CaseSensitive(lookup, key) ==
    IF key = Null \/ key = <<>> THEN NoAgent
    ELSE LET normalized == Trim(key)
         IN  IF normalized = <<>> THEN NoAgent
             ELSE IF normalized \in DOMAIN lookup THEN lookup[normalized]
             ELSE IF normalized \in InheritedKeys THEN Inherited
             ELSE NoAgent

getAgentByKey(lookup, key) ==
    IF key = Null \/ key = <<>> THEN NoAgent
    ELSE LET normalized == ToLowerCase(Trim(key))
         IN  IF normalized = <<>> THEN NoAgent
             ELSE IF normalized \in DOMAIN lookup THEN lookup[normalized]
             ELSE IF normalized \in InheritedKeys THEN Inherited
             ELSE NoAgent

(***************************************************************************)
(* The state.                                                              *)
(*   app            the App component's state (useState values)            *)
(*   view           the App state of the last render: what is on screen    *)
(*                  and what the callbacks' closures hold                  *)
(*   scanner        the mounted Scanner instance                           *)
(*   staleScanners  the pending start() calls of discarded Scanners        *)
(*   cs             the mounted call screen                                *)
(*   backend        the voice backends: the shared Vapi client and the     *)
(*                  ElevenLabs conversations                               *)
(*   events         backend lifecycle events emitted and not yet delivered *)
(*   stale          the pending start calls of discarded call screens      *)
(*   apiKey         whether VITE_ELEVENLABS_API_KEY is set                 *)
(***************************************************************************)
VARIABLES app, view, scanner, staleScanners, cs, backend, events, stale, apiKey,
          givenPayload, resolvedKey, lookedUp, permissions, videoDevices, scanStart

vars == <<app, view, scanner, staleScanners, cs, backend, events, stale, apiKey,
          givenPayload, resolvedKey, lookedUp, permissions, videoDevices, scanStart>>

NullText == "null"

Providers == {"vapi", "elevenlabs"}

MsgUnreadable == "Could not read this QR code. Please try again."

MsgUnknown == "Unknown agent. Please scan a TalkieWalkie QR."

MsgNoCamera == "No camera found. Please attach a camera and try again."

MsgCameraError == "Camera error"

\* The payloads the decoder hands over.
Payloads ==
    { Rio,
      <<"R", "I", "O">>,
      <<"x", "y", "z">>,
      <<" ">>,
      SchemePrefix \o <<"a", "g", "e", "n", "t", "/">> \o Rio,
      <<"{", "\"">> \o AgentField \o <<"\"", ":", "\"">> \o Rio \o <<"\"", "}">>,
      <<"{", "\"">> \o AgentField \o <<"\"", ":", "\"", "\"", "}">>,
      <<"{", "x">> }

(***************************************************************************)
(* App: the handlers, as functions of the App state a.  prov is the        *)
(* provider the handler's closure holds.                                   *)
(***************************************************************************)
InitApp ==
    [provider |-> NullText, stage |-> "home", agent |-> NoAgent, message |-> NullText,
     scannerError |-> NullText, token |-> 0]

enterProvider(a, next) ==
    [a EXCEPT !.provider = next, !.stage = "scanning", !.agent = NoAgent,
              !.scannerError = NullText, !.message = NullText, !.token = @ + 1]

\* clearProvider resetting the provider and the stage only.
clearProvider_KeepsAgent(a) == [a EXCEPT !.provider = NullText, !.stage = "home"]

clearProvider(a) ==
    [a EXCEPT !.provider = NullText, !.stage = "home", !.agent = NoAgent,
              !.scannerError = NullText, !.message = NullText]

\* restartScanner without the new reset token.
restartScanner_NoBump(a, prov, clearMessage) ==
    IF prov = NullText THEN a
    ELSE [a EXCEPT !.stage = "scanning", !.agent = NoAgent, !.scannerError = NullText,
                   !.message = IF clearMessage THEN NullText ELSE @]

\* restartScanner without setScannerError(null).
restartScanner_KeepsError(a, prov, clearMessage) ==
    IF prov = NullText THEN a
    ELSE [a EXCEPT !.stage = "scanning", !.agent = NoAgent,
                   !.message = IF clearMessage THEN NullText ELSE @,
                   !.token = @ + 1]

\* restartScanner without its test of the provider.
restartScanner_Unguarded(a, prov, clearMessage) ==
    [a EXCEPT !.stage = "scanning", !.agent = NoAgent, !.scannerError = NullText,
              !.message = IF clearMessage THEN NullText ELSE @,
              !.token = @ + 1]

restartScanner(a, prov, clearMessage) ==
    IF prov = NullText THEN a
    ELSE [a EXCEPT !.stage = "scanning", !.agent = NoAgent, !.scannerError = NullText,
                   !.message = IF clearMessage THEN NullText ELSE @,
                   !.token = @ + 1]

\* handleDetection without the check of the lookup's result.
handleDetection_NoInfoCheck(a, prov, payload) ==
    IF prov = NullText THEN a
    ELSE LET a1 == [a EXCEPT !.stage = "resolving", !.message = NullText]
             key == resolveAgentKey(payload)
             lookup == IF prov = "elevenlabs" THEN ELEVENLABS_LOOKUP ELSE VAPI_LOOKUP
             info == getAgentByKey(lookup, key)
         IN  IF key = Null \/ key = <<>>
             THEN restartScanner([a1 EXCEPT !.message = MsgUnreadable], prov, FALSE)
             ELSE [a1 EXCEPT !.agent = info, !.stage = "call"]

\* handleDetection without the restart of the scanner for an unknown agent.
handleDetection_StaysResolving(a, prov, payload) ==
    IF prov = NullText THEN a
    ELSE LET a1 == [a EXCEPT !.stage = "resolving", !.message = NullText]
             key == resolveAgentKey(payload)
             lookup == IF prov = "elevenlabs" THEN ELEVENLABS_LOOKUP ELSE VAPI_LOOKUP
             info == getAgentByKey(lookup, key)
         IN  IF key = Null \/ key = <<>>
             THEN restartScanner([a1 EXCEPT !.message = MsgUnreadable], prov, FALSE)
             ELSE IF info = NoAgent
             THEN [a1 EXCEPT !.message = MsgUnknown]
             ELSE [a1 EXCEPT !.agent = info, !.stage = "call"]

\* handleDetection with the Vapi lookup for every provider.
handleDetection_VapiLookupOnly(a, prov, payload) ==
    IF prov = NullText THEN a
    ELSE LET a1 == [a EXCEPT !.stage = "resolving", !.message = NullText]
             key == resolveAgentKey(payload)
             info == getAgentByKey(VAPI_LOOKUP, key)
         IN  IF key = Null \/ key = <<>>
             THEN restartScanner([a1 EXCEPT !.message = MsgUnreadable], prov, FALSE)
             ELSE IF info = NoAgent
             THEN restartScanner([a1 EXCEPT !.message = MsgUnknown], prov, FALSE)
             ELSE [a1 EXCEPT !.agent = info, !.stage = "call"]

handleDetection(a, prov, payload) ==
    IF prov = NullText THEN a
    ELSE LET a1 == [a EXCEPT !.stage = "resolving", !.message = NullText]
             key == resolveAgentKey(payload)
             lookup == IF prov = "elevenlabs" THEN ELEVENLABS_LOOKUP ELSE VAPI_LOOKUP
             info == getAgentByKey(lookup, key)
         IN  IF key = Null \/ key = <<>>
             THEN restartScanner([a1 EXCEPT !.message = MsgUnreadable], prov, FALSE)
             ELSE IF info = NoAgent
             THEN restartScanner([a1 EXCEPT !.message = MsgUnknown], prov, FALSE)
             ELSE [a1 EXCEPT !.agent = info, !.stage = "call"]

\* handleScannerError taking the message off the display as well.
handleScannerError_ClearsMessage(a, msg) ==
    [a EXCEPT !.scannerError = msg, !.message = NullText]

handleScannerError(a, msg) == [a EXCEPT !.scannerError = msg]

(***************************************************************************)
(* Scanner.tsx.  pc is the position of the instance's start():             *)
(*   enumerating  awaiting listVideoInputDevices                           *)
(*   starting     awaiting decodeFromVideoDevice                           *)
(*   listening    decoding frames, the camera stream open                  *)
(*   stopped      controls.stop() called by the frame callback             *)
(*   failed       start() ended in its catch                               *)
(* emits counts the terminal events the instance gave its owner.           *)
(***************************************************************************)
NoScanner == [mounted |-> FALSE, key |-> 0, pc |-> "none", emits |-> 0]

\* The effect of a mounted Scanner: start() runs up to its first await.
MountScanner(key) == [mounted |-> TRUE, key |-> key, pc |-> "enumerating", emits |-> 0]

\* The effect's cleanup: cancelled = true, controlsRef.current?.stop(), the
\* tracks of the video element stopped.  A start() still awaiting goes on.
ScannerCleanup(sc, st) ==
    IF sc.mounted /\ sc.pc \in {"enumerating", "starting"} THEN st \cup {sc.pc} ELSE st

\* The i flag of the regular expression: letters compared in lower case.
IgnoreCase(c) ==
    LET upper == <<"A", "B", "C", "D", "E", "F", "G", "H", "I", "J", "K", "L", "M",
                   "N", "O", "P", "Q", "R", "S", "T", "U", "V", "W", "X", "Y", "Z">>
        lower == <<"a", "b", "c", "d", "e", "f", "g", "h", "i", "j", "k", "l", "m",
                   "n", "o", "p", "q", "r", "s", "t", "u", "v", "w", "x", "y", "z">>
    IN  IF \E k \in 1..26 : upper[k] = c
        THEN lower[CHOOSE k \in 1..26 : upper[k] = c]
        ELSE c

\* /back|rear|environment/i.test(label)
RearPattern(label) ==
    LET words == { <<"b", "a", "c", "k">>, <<"r", "e", "a", "r">>,
                   <<"e", "n", "v", "i", "r", "o", "n", "m", "e", "n", "t">> }
    IN  \E word \in words, at \in 0..Len(label) :
            /\ at + Len(word) <= Len(label)
            /\ \A i \in 1..Len(word) : IgnoreCase(label[at + i]) = word[i]

\* start() before listVideoInputDevices has settled.
NoStart == [pc |-> "enumerating", deviceId |-> "", message |-> NullText]

\* devices.find(match)?.deviceId || devices[0]?.deviceId; "" stands for the
\* empty id and for undefined, both of which the test that follows refuses.
preferredDeviceId(devices) ==
    LET matches == {i \in 1..Len(devices) : RearPattern(devices[i].label)}
        found == IF matches = {} THEN ""
                 ELSE devices[CHOOSE i \in matches : \A j \in matches : i <= j].deviceId
    IN  IF found # "" THEN found
        ELSE IF devices # <<>> THEN devices[1].deviceId
        ELSE ""

\* start() from the devices listed to the call of decodeFromVideoDevice, or
\* to the catch with the no-camera error.
selectDevice(devices) ==
    LET id == preferredDeviceId(devices)
    IN  IF id = "" THEN [pc |-> "failed", deviceId |-> "", message |-> MsgNoCamera]
        ELSE [pc |-> "starting", deviceId |-> id, message |-> NullText]

\* The frame callback without controls.stop().
FrameCallback_NoStop(sc) == [sc EXCEPT !.emits = @ + 1]

\* The frame callback with a result: controls.stop(), then onDetected.
FrameCallback(sc) == [sc EXCEPT !.pc = "stopped", !.emits = @ + 1]

\* The catch of start(): onError, unless cancelled.
StartCatch(sc) == [sc EXCEPT !.pc = "failed", !.emits = @ + 1]

(***************************************************************************)
(* The call screens.  kind names the component: "vapi" is CallScreen       *)
(* (push-to-talk), "elevenlabs" is ElevenLabsCallScreen (push-to-talk).    *)
(* status, error, isHolding, isMuted are the useState values; statusRef is *)
(* the ref the status effect writes, which is also the status of the last  *)
(* render; rHolding and rMuted are isHolding and isMuted of the last       *)
(* render (the closures' isHolding, the micMuted given to useConversation).*)
(* nProbe and nNeg count this instance's start calls awaiting the          *)
(* microphone probe and the backend's session-start.                       *)
(***************************************************************************)
NoCall ==
    [mounted |-> FALSE, kind |-> NullText, agentId |-> NullText, status |-> "idle",
     error |-> NullText, isHolding |-> FALSE, isMuted |-> TRUE, statusRef |-> "idle",
     rHolding |-> FALSE, rMuted |-> TRUE, nProbe |-> 0, nNeg |-> 0]

ErrMissingKey == "Missing ElevenLabs API key. Set VITE_ELEVENLABS_API_KEY and reload."

ErrStartFallback == "Could not start the call."

ErrStartFallbackEl == "Could not start the ElevenLabs conversation."

ErrStartFailed == "Unable to connect to the assistant. Please try again."

ErrCallError == "A call error occurred. Please try again."

\* What a rejected await throws: an Error with its message, or another value.
Thrown == {"Permission denied", "not an Error"}

CatchMessage(kind, thrown) ==
    IF thrown = "not an Error"
    THEN IF kind = "vapi" THEN ErrStartFallback ELSE ErrStartFallbackEl
    ELSE thrown

\* The messages the ElevenLabs SDK gives onError.
SdkMessages == {"Connection lost"}

InitBackend == [vActive |-> FALSE, vMuted |-> FALSE, eActive |-> FALSE, eOrphan |-> FALSE]

\* The world: every variable but apiKey, as one record the handlers map.
World ==
    [app |-> app, view |-> view, scanner |-> scanner, staleScanners |-> staleScanners,
     cs |-> cs, backend |-> backend, events |-> events, stale |-> stale]

\* The bounds, as a guard of every step.
WithinBounds(w) ==
    /\ w.app.token <= MaxToken
    /\ w.cs.nProbe + w.cs.nNeg + Cardinality(w.events)
           + Cardinality(w.stale) + Cardinality(w.staleScanners) <= MaxPending

SetWorld(w) ==
    /\ WithinBounds(w)
    /\ app' = w.app
    /\ view' = w.view
    /\ scanner' = w.scanner
    /\ staleScanners' = w.staleScanners
    /\ cs' = w.cs
    /\ backend' = w.backend
    /\ events' = w.events
    /\ stale' = w.stale
    /\ UNCHANGED <<apiKey, givenPayload, resolvedKey, lookedUp, permissions,
                   videoDevices, scanStart>>

\* vapi.stop(): the call of the shared client, if any, is destroyed.
VapiStop(w) ==
    IF w.backend.vActive
    THEN [w EXCEPT !.backend.vActive = FALSE, !.events = @ \cup {"call-end"}]
    ELSE w

\* conversation.endSession() of the mounted ElevenLabs screen.
ElEndSession(w) ==
    IF w.backend.eActive
    THEN [w EXCEPT !.backend.eActive = FALSE, !.events = @ \cup {"disconnecting"}]
    ELSE w

\* applyMuteState(mute).  vapi.setMuted throws only without a call object;
\* then setIsMuted is skipped.
applyMuteState(w, mute, throws) ==
    IF throws /\ ~w.backend.vActive THEN w
    ELSE [w EXCEPT !.backend.vMuted = mute, !.cs.isMuted = mute]

\* startCall / startSession without setError(null).
startSession_KeepsError(w, hasKey) ==
    IF w.cs.statusRef \in {"connecting", "live"} THEN w
    ELSE IF w.cs.kind = "elevenlabs" /\ ~hasKey
    THEN [w EXCEPT !.cs.error = ErrMissingKey, !.cs.status = "error"]
    ELSE [w EXCEPT !.cs.status = "connecting", !.cs.nProbe = @ + 1]

\* startCall / startSession up to its first await.
startSession(w, hasKey) ==
    IF w.cs.statusRef \in {"connecting", "live"} THEN w
    ELSE IF w.cs.kind = "elevenlabs" /\ ~hasKey
    THEN [w EXCEPT !.cs.error = ErrMissingKey, !.cs.status = "error"]
    ELSE [w EXCEPT !.cs.error = NullText, !.cs.status = "connecting", !.cs.nProbe = @ + 1]

\* The catch of startCall / startSession.
startCatch(w, thrown, throws) ==
    IF w.cs.kind = "vapi"
    THEN applyMuteState([w EXCEPT !.cs.status = "error",
                                  !.cs.error = CatchMessage("vapi", thrown)], TRUE, throws)
    ELSE [w EXCEPT !.cs.error = CatchMessage("elevenlabs", thrown), !.cs.status = "error",
                   !.cs.isMuted = TRUE]

\* endCall / endSession.
endSession(w, throws) ==
    IF w.cs.kind = "vapi"
    THEN LET w1 == applyMuteState(VapiStop(w), TRUE, throws)
         IN  [w1 EXCEPT !.cs.isHolding = FALSE, !.cs.status = "ended"]
    ELSE [ElEndSession(w) EXCEPT !.cs.status = "ended", !.cs.isHolding = FALSE,
                                 !.cs.isMuted = TRUE]

\* Whether an exception leaves the handler when its call that stops the
\* backend session fails (stopThrows).  endCall: try { vapi.stop() } finally
\* { ... }, no catch.  endSession: conversation.endSession().catch(...).
endSessionEscapes(kind, stopThrows) == kind = "vapi" /\ stopThrows

\* The Back button.  CallScreen: try { handleHoldEnd(); vapi.stop() } finally
\* { applyMuteState(true); onBack() }, no catch.  ElevenLabsCallScreen:
\* conversation.endSession().catch(...).
backEscapes(kind, stopThrows) == kind = "vapi" /\ stopThrows

\* The unmount cleanup.  CallScreen: try { vapi.stop() } catch { warn }.
\* ElevenLabsCallScreen: conversation.endSession().catch(...).
unmountEscapes(kind, stopThrows) == FALSE

\* The cleanup of Scanner's effect: controlsRef.current?.stop() stands
\* outside any try.
scannerCleanupEscapes(stopThrows) == stopThrows

handleHoldStart(w, throws) ==
    IF w.cs.statusRef # "live" \/ w.cs.rHolding THEN w
    ELSE IF w.cs.kind = "vapi"
    THEN applyMuteState([w EXCEPT !.cs.isHolding = TRUE], FALSE, throws)
    ELSE [w EXCEPT !.cs.isHolding = TRUE, !.cs.isMuted = FALSE]

handleHoldEnd(w, throws) ==
    IF ~w.cs.rHolding THEN w
    ELSE IF w.cs.kind = "vapi"
    THEN applyMuteState([w EXCEPT !.cs.isHolding = FALSE], TRUE, throws)
    ELSE [w EXCEPT !.cs.isHolding = FALSE, !.cs.isMuted = TRUE]

\* onError of useConversation: the SDK's message becomes the error shown.
onError(w, message) ==
    [w EXCEPT !.cs.status = "error", !.cs.error = message, !.cs.isHolding = FALSE,
              !.cs.isMuted = TRUE]

\* The handlers with a handleCallStart that mutes and leaves the status.
handleEvent_CallStartKeepsStatus(w, e, throws) ==
    CASE e = "call-start" ->
           applyMuteState([w EXCEPT !.cs.isHolding = FALSE], TRUE, throws)
      [] e = "call-end" ->
           applyMuteState([w EXCEPT !.cs.status = "ended", !.cs.isHolding = FALSE], TRUE, throws)
      [] e = "call-start-failed" ->
           [applyMuteState([w EXCEPT !.cs.status = "error", !.cs.isHolding = FALSE], TRUE, throws)
               EXCEPT !.cs.error = ErrStartFailed]
      [] e = "error" ->
           [applyMuteState([w EXCEPT !.cs.status = "error", !.cs.isHolding = FALSE], TRUE, throws)
               EXCEPT !.cs.error = ErrCallError]
      [] e = "connected" -> [w EXCEPT !.cs.status = "live"]
      [] e \in {"disconnecting", "disconnected", "onDisconnect"} ->
           [w EXCEPT !.cs.status = "ended", !.cs.isHolding = FALSE, !.cs.isMuted = TRUE]
      [] e \in SdkMessages -> onError(w, e)

\* The backend event handlers of the mounted screen.
handleEvent(w, e, throws) ==
    CASE e = "call-start" ->
           applyMuteState([w EXCEPT !.cs.status = "live", !.cs.isHolding = FALSE], TRUE, throws)
      [] e = "call-end" ->
           applyMuteState([w EXCEPT !.cs.status = "ended", !.cs.isHolding = FALSE], TRUE, throws)
      [] e = "call-start-failed" ->
           [applyMuteState([w EXCEPT !.cs.status = "error", !.cs.isHolding = FALSE], TRUE, throws)
               EXCEPT !.cs.error = ErrStartFailed]
      [] e = "error" ->
           [applyMuteState([w EXCEPT !.cs.status = "error", !.cs.isHolding = FALSE], TRUE, throws)
               EXCEPT !.cs.error = ErrCallError]
      [] e = "connected" -> [w EXCEPT !.cs.status = "live"]
      [] e \in {"disconnecting", "disconnected", "onDisconnect"} ->
           [w EXCEPT !.cs.status = "ended", !.cs.isHolding = FALSE, !.cs.isMuted = TRUE]
      [] e \in SdkMessages -> onError(w, e)

VapiEvents == {"call-start", "call-end", "call-start-failed", "error"}

ElEvents == {"connected", "disconnecting", "disconnected", "onDisconnect"} \cup SdkMessages

(***************************************************************************)
(* Rendering.                                                              *)
(***************************************************************************)
\* A render of the mounted call screen and its effects: the status effect
\* writes statusRef and, in CallScreen, clears isHolding when the status it
\* sees is new and not live; the closures are made anew.
Commit(c) ==
    LET changed == c.statusRef # c.status
        hold == IF c.kind = "vapi" /\ changed /\ c.status # "live" THEN FALSE ELSE c.isHolding
    IN  [c EXCEPT !.statusRef = c.status, !.isHolding = hold, !.rHolding = hold,
                  !.rMuted = c.isMuted]

\* The start calls a discarded call screen leaves pending.
Pending(c) ==
    (IF c.nProbe > 0 THEN {IF c.kind = "vapi" THEN "vProbe" ELSE "eProbe"} ELSE {})
        \cup (IF c.nNeg > 0 THEN {IF c.kind = "vapi" THEN "vNeg" ELSE "eNeg"} ELSE {})

\* The cleanups of a call screen that leaves the tree.  CallScreen: the
\* listeners are removed, vapi.stop(), applyMuteState(true).
\* ElevenLabsCallScreen: handleHoldEnd(), conversation.endSession(); its
\* callbacks die with it.
UnmountCall(w, throws) ==
    LET w1 == IF w.cs.kind = "vapi"
              THEN applyMuteState(VapiStop(w), TRUE, throws)
              ELSE [ElEndSession(w) EXCEPT !.events = @ \ ElEvents]
    IN  [w1 EXCEPT !.stale = @ \cup Pending(w.cs), !.cs = NoCall]

\* A call screen enters the tree: its effects run, the last one calls
\* startCall / startSession.
MountCall(w, kind, agentId, hasKey) ==
    startSession([w EXCEPT !.cs = [NoCall EXCEPT !.mounted = TRUE, !.kind = kind,
                                                 !.agentId = agentId]], hasKey)

\* What App's render returns for the App state a: the call screen, ...
WantCall(a) ==
    a.provider # NullText /\ a.stage # "home" /\ a.stage = "call" /\ a.agent # NoAgent

\* ... the scanner section with the error and Retry Scanner, ...
ShowsRetry(a) ==
    /\ a.provider # NullText /\ a.stage # "home" /\ ~WantCall(a)
    /\ a.stage # "resolving" /\ a.scannerError # NullText

\* ... or the scanner section with a Scanner.
WantScanner(a) ==
    /\ a.provider # NullText /\ a.stage # "home" /\ ~WantCall(a)
    /\ a.stage # "resolving" /\ a.scannerError = NullText

\* App renders: the tree follows the App state.  A Scanner is kept while its
\* key is the reset token, a call screen while its component type stays.
Reconcile(w, throws, hasKey) ==
    LET a == w.app
        keepScanner == w.scanner.mounted /\ WantScanner(a) /\ w.scanner.key = a.token
        keepCall == w.cs.mounted /\ WantCall(a) /\ w.cs.kind = a.provider
        w1 == IF w.cs.mounted /\ ~keepCall THEN UnmountCall(w, throws) ELSE w
        w2 == IF w1.scanner.mounted /\ ~keepScanner
              THEN [w1 EXCEPT !.staleScanners = ScannerCleanup(w1.scanner, @),
                              !.scanner = NoScanner]
              ELSE w1
        w3 == IF WantScanner(a) /\ ~keepScanner
              THEN [w2 EXCEPT !.scanner = MountScanner(a.token)]
              ELSE w2
        w4 == IF WantCall(a) /\ ~keepCall THEN MountCall(w3, a.provider, a.agent.id, hasKey)
              ELSE IF keepCall THEN [w3 EXCEPT !.cs = Commit(w3.cs)]
              ELSE w3
    IN  [w4 EXCEPT !.view = a]

\* Whether vapi.setMuted throws, where a handler of the mounted screen calls
\* it: a choice only CallScreen's handlers see.
SetMutedThrows == IF cs.mounted /\ cs.kind = "vapi" THEN BOOLEAN ELSE {FALSE}

\* Whether the call that stops the backend session fails, where a handler
\* of the mounted screen makes it: only a session already stopped fails to
\* stop.
StopThrows ==
    IF cs.mounted /\ ~(IF cs.kind = "vapi" THEN backend.vActive ELSE backend.eActive)
    THEN BOOLEAN ELSE {FALSE}

\* The Back handler with the session stopped before the hold is released.
backToScanner_StopsFirst(w, prov, throws, stopThrows) ==
    LET stopped == IF stopThrows THEN w
                   ELSE IF w.cs.kind = "vapi" THEN VapiStop(w) ELSE ElEndSession(w)
        held == handleHoldEnd(stopped, throws)
        muted == IF w.cs.kind = "vapi" THEN applyMuteState(held, TRUE, throws) ELSE held
    IN  [muted EXCEPT !.app = restartScanner(muted.app, prov, TRUE)]

\* The Back handler.  CallScreen: try { handleHoldEnd(); vapi.stop() } finally
\* { applyMuteState(true); onBack() }.  ElevenLabsCallScreen: handleHoldEnd();
\* conversation.endSession().catch(...); onBack().
backToScanner(w, prov, throws, stopThrows) ==
    LET held == handleHoldEnd(w, throws)
        stopped == IF stopThrows THEN held
                   ELSE IF w.cs.kind = "vapi" THEN VapiStop(held) ELSE ElEndSession(held)
        muted == IF w.cs.kind = "vapi" THEN applyMuteState(stopped, TRUE, throws) ELSE stopped
    IN  [muted EXCEPT !.app = restartScanner(muted.app, prov, TRUE)]

\* No result yet: the value of resolvedKey before resolveAgentKey is called,
\* and of lookedUp before getAgentByKey is.
Unset == <<"unset">>

NoLookup == [table |-> "unset", key |-> Unset, agent |-> [id |-> "unset", label |-> "unset"]]

(***************************************************************************)
(* App: the permission states.  supported is isPermissionApiSupported,     *)
(* camera and microphone are the two states displayed, refreshes are the   *)
(* refreshPermissions calls in flight, each with what its two queries have *)
(* got from the host so far, effectRan tells that the mount effect has     *)
(* run.  mediaSupported is isMediaDevicesSupported, error is               *)
(* permissionError, acquiring counts the requestMediaPermissions calls     *)
(* awaiting getUserMedia, openTracks the tracks of acquired streams that   *)
(* have not been stopped.                                                  *)
(***************************************************************************)
PERMISSION_UNSUPPORTED == "unsupported"

MediaPermissionNames == {"camera", "microphone"}

\* What navigator.permissions.query comes to: a status with one of the three
\* states, a status without a state, a rejection (or a throw).
QueryOutcomes == {"granted", "denied", "prompt", "undefined", "rejected"}

InitPermissions(supported) ==
    [supported |-> supported, camera |-> "prompt", microphone |-> "prompt",
     refreshes |-> <<>>, effectRan |-> FALSE,
     mediaSupported |-> TRUE, error |-> NullText, acquiring |-> 0, openTracks |-> 0]

\* queryPermission up to its await: "unqueried" when it returns at once
\* without a query, "pending" when it has asked the host.
queryPermissionBegins(supported) == IF supported THEN "pending" ELSE "unqueried"

queryPermission_RejectionDenied(supported, outcome) ==
    IF ~supported THEN PERMISSION_UNSUPPORTED
    ELSE CASE outcome = "rejected" -> "denied"
           [] outcome = "undefined" -> "prompt"
           [] OTHER -> outcome

\* The value queryPermission returns, outcome being what the query came to.
queryPermission(supported, outcome) ==
    IF ~supported THEN PERMISSION_UNSUPPORTED
    ELSE CASE outcome = "rejected" -> "prompt"
           [] outcome = "undefined" -> "prompt"
           [] OTHER -> outcome

\* The refreshPermissions calls in flight have no order among them: the
\* sequence that holds them is kept sorted.
InFlight(refreshes) ==
    LET states == <<"pending", "unqueried", "granted", "denied", "prompt", "undefined",
                    "rejected">>
        rank(e) == CHOOSE k \in 1..Len(states) : states[k] = e
        weight(r) == Len(states) * rank(r["camera"]) + rank(r["microphone"])
        before(a, b) == weight(a) < weight(b)
    IN  SortSeq(refreshes, before)

\* refreshPermissions up to the await of Promise.all: both queries begun.
refreshPermissions(p) ==
    [p EXCEPT !.refreshes =
        InFlight(Append(@, [n \in MediaPermissionNames |->
                               queryPermissionBegins(p.supported)]))]

\* The rest of refreshPermissions number i, both its queries settled.
refreshSettled(p, i) ==
    [p EXCEPT !.camera = queryPermission(p.supported, p.refreshes[i]["camera"]),
              !.microphone = queryPermission(p.supported, p.refreshes[i]["microphone"]),
              !.refreshes = SubSeq(@, 1, i - 1) \o SubSeq(@, i + 1, Len(@))]

(***************************************************************************)
(* Init and the steps.                                                     *)
(***************************************************************************)
Init ==
    /\ app = InitApp
    /\ view = InitApp
    /\ scanner = NoScanner
    /\ staleScanners = {}
    /\ cs = NoCall
    /\ backend = InitBackend
    /\ events = {}
    /\ stale = {}
    /\ apiKey \in BOOLEAN
    /\ givenPayload = <<>>
    /\ resolvedKey = Unset
    /\ lookedUp = NoLookup
    /\ permissions = InitPermissions(TRUE)
    /\ videoDevices = <<>>
    /\ scanStart = NoStart

\* A render that was scheduled by a handler run outside a DOM event.
Render ==
    \E throws \in SetMutedThrows :
        LET w == Reconcile(World, throws, apiKey)
        IN  /\ w # World
            /\ SetWorld(w)

\* The provider buttons of the home screen.
EnterProviderClick ==
    \E p \in Providers, throws \in SetMutedThrows :
        /\ view.provider = NullText \/ view.stage = "home"
        /\ SetWorld(Reconcile([World EXCEPT !.app = enterProvider(app, p)], throws, apiKey))

\* Change Mode.
ChangeModeClick ==
    \E throws \in SetMutedThrows :
        /\ view.provider # NullText /\ view.stage # "home"
        /\ SetWorld(Reconcile([World EXCEPT !.app = clearProvider(app)], throws, apiKey))

\* Retry Scanner, shown with the scanner error.
RetryScannerClick ==
    \E throws \in SetMutedThrows :
        /\ ShowsRetry(view)
        /\ SetWorld(Reconcile([World EXCEPT !.app = restartScanner(app, view.provider, TRUE)],
                              throws, apiKey))

\* listVideoInputDevices settles for the mounted Scanner.
ScanDevicesListed ==
    \E outcome \in {"devices", "nodevice", "throws"} :
        /\ scanner.mounted /\ scanner.pc = "enumerating"
        /\ IF outcome = "devices"
           THEN SetWorld([World EXCEPT !.scanner.pc = "starting"])
           ELSE SetWorld([World EXCEPT
                    !.scanner = StartCatch(scanner),
                    !.app = handleScannerError(app,
                                IF outcome = "nodevice" THEN MsgNoCamera ELSE MsgCameraError)])

\* decodeFromVideoDevice settles for the mounted Scanner.
ScanDecodeStarted ==
    \E ok \in BOOLEAN :
        /\ scanner.mounted /\ scanner.pc = "starting"
        /\ IF ok
           THEN SetWorld([World EXCEPT !.scanner.pc = "listening"])
           ELSE SetWorld([World EXCEPT !.scanner = StartCatch(scanner),
                                       !.app = handleScannerError(app, MsgCameraError)])

\* A frame of the mounted Scanner decodes to a payload.
ScanFrameDecoded ==
    \E payload \in Payloads :
        LET a == handleDetection(app, view.provider, payload)
        IN  /\ scanner.mounted /\ scanner.pc = "listening"
            /\ SetWorld([World EXCEPT !.scanner = FrameCallback(scanner), !.app = a])

\* The start() of a discarded Scanner goes on: cancelled is true, so it
\* reports nothing, but it is not stopped.
StaleScanDevicesListed ==
    \E ok \in BOOLEAN :
        /\ "enumerating" \in staleScanners
        /\ SetWorld([World EXCEPT !.staleScanners =
                         (@ \ {"enumerating"}) \cup (IF ok THEN {"starting"} ELSE {})])

StaleScanDecodeStarted ==
    \E ok \in BOOLEAN :
        /\ "starting" \in staleScanners
        /\ SetWorld([World EXCEPT !.staleScanners =
                         (@ \ {"starting"}) \cup (IF ok THEN {"listening"} ELSE {})])

\* The frame callback of a discarded Scanner without the test of cancelled.
StaleScanFrameDecoded_Delivers ==
    \E payload \in Payloads :
        /\ "listening" \in staleScanners
        /\ SetWorld([World EXCEPT !.staleScanners = @ \ {"listening"},
                                  !.app = handleDetection(app, view.provider, payload)])

\* The frame callback of a discarded Scanner: controls.stop(), no onDetected.
StaleScanFrameDecoded ==
    /\ "listening" \in staleScanners
    /\ SetWorld([World EXCEPT !.staleScanners = @ \ {"listening"}])

(***************************************************************************)
(* The call screen's steps.                                                *)
(***************************************************************************)
\* The primary button (disabled while the rendered status is connecting):
\* End Call when the rendered status is live, else startCall / startSession.
PrimaryClick ==
    \E throws \in SetMutedThrows :
        LET w == IF cs.statusRef = "live" THEN endSession(World, throws)
                 ELSE startSession(World, apiKey)
        IN  /\ cs.mounted /\ cs.statusRef # "connecting"
            /\ SetWorld(Reconcile(w, throws, apiKey))

\* Pointer down, Space or Enter on the push-to-talk button.
HoldStart ==
    \E throws \in SetMutedThrows :
        /\ cs.mounted
        /\ SetWorld(Reconcile(handleHoldStart(World, throws), throws, apiKey))

\* Pointer up, leave, cancel, blur or key up on the push-to-talk button.
HoldEnd ==
    \E throws \in SetMutedThrows :
        /\ cs.mounted
        /\ SetWorld(Reconcile(handleHoldEnd(World, throws), throws, apiKey))

\* Back to Scanner; onBack is App's restartScanner().
BackClick ==
    \E throws \in SetMutedThrows, stopThrows \in StopThrows :
        /\ cs.mounted
        /\ SetWorld(Reconcile(backToScanner(World, view.provider, throws, stopThrows),
                              throws, apiKey))

\* The microphone probe of a start call of the mounted screen settles: the
\* backend's session-start is invoked, or the catch runs.
ProbeSettle ==
    \E thrown \in Thrown \cup {"none"}, throws \in SetMutedThrows :
        /\ cs.mounted /\ cs.nProbe > 0
        /\ LET w == [World EXCEPT !.cs.nProbe = @ - 1]
           IN  IF thrown = "none"
               THEN SetWorld([w EXCEPT !.cs.nNeg = @ + 1])
               ELSE SetWorld(startCatch(w, thrown, throws))

\* vapi.start / conversation.startSession of the mounted screen resolves with
\* a session: the code after the await runs.
NegResolve ==
    /\ cs.mounted /\ cs.nNeg > 0
    /\ LET w == [World EXCEPT !.cs.nNeg = @ - 1]
       IN  IF cs.kind = "vapi"
           THEN SetWorld(applyMuteState(
                    [w EXCEPT !.backend.vActive = TRUE, !.backend.vMuted = FALSE,
                              !.events = @ \cup {"call-start"}], TRUE, FALSE))
           ELSE SetWorld([w EXCEPT !.backend.eActive = TRUE,
                                   !.events = @ \cup {"connected"},
                                   !.cs.isMuted = TRUE, !.cs.status = "live"])

\* It rejects: the catch runs.
NegReject ==
    \E thrown \in Thrown, throws \in SetMutedThrows :
        /\ cs.mounted /\ cs.nNeg > 0
        /\ SetWorld(startCatch([World EXCEPT !.cs.nNeg = @ - 1], thrown, throws))

\* The Vapi client reports the failed start as an event and resolves.
NegFailedEvent ==
    \E e \in {"call-start-failed", "error"}, throws \in SetMutedThrows :
        /\ cs.mounted /\ cs.kind = "vapi" /\ cs.nNeg > 0
        /\ SetWorld(applyMuteState([World EXCEPT !.cs.nNeg = @ - 1,
                                                 !.events = @ \cup {e}], TRUE, throws))

\* The pending start calls of discarded screens go on: nothing checks that
\* the screen is gone.  Their setState calls change nothing.
StaleProbeSettle ==
    \E k \in stale \cap {"vProbe", "eProbe"}, ok \in BOOLEAN, throws \in BOOLEAN :
        /\ k \in stale
        /\ SetWorld([World EXCEPT
               !.stale = (@ \ {k}) \cup
                            (IF ok THEN {IF k = "vProbe" THEN "vNeg" ELSE "eNeg"} ELSE {}),
               !.backend = IF ~ok /\ k = "vProbe" /\ ~(throws /\ ~backend.vActive)
                           THEN [@ EXCEPT !.vMuted = TRUE]
                           ELSE @])

StaleNegSettle ==
    \E k \in stale \cap {"vNeg", "eNeg"}, ok \in BOOLEAN, throws \in BOOLEAN :
        /\ k \in stale
        /\ SetWorld([World EXCEPT
               !.stale = @ \ {k},
               !.backend = IF k = "vNeg"
                           THEN IF ok THEN [@ EXCEPT !.vActive = TRUE, !.vMuted = TRUE]
                                ELSE IF throws /\ ~backend.vActive THEN @
                                ELSE [@ EXCEPT !.vMuted = TRUE]
                           ELSE IF ok THEN [@ EXCEPT !.eOrphan = TRUE]
                           ELSE @,
               !.events = IF k = "vNeg" /\ ok THEN @ \cup {"call-start"} ELSE @])

\* The backend ends or faults a session by itself.
VapiRemoteEnd ==
    /\ backend.vActive
    /\ SetWorld([World EXCEPT !.backend.vActive = FALSE, !.events = @ \cup {"call-end"}])

VapiError ==
    /\ backend.vActive
    /\ SetWorld([World EXCEPT !.events = @ \cup {"error"}])

ElRemoteEnd ==
    /\ backend.eActive
    /\ SetWorld([World EXCEPT !.backend.eActive = FALSE,
                               !.events = @ \cup {"disconnecting"}])

ElError ==
    \E m \in SdkMessages :
        /\ backend.eActive
        /\ SetWorld([World EXCEPT !.events = @ \cup {m}])

\* An emitted event reaches the listeners: those of the mounted screen of
\* its backend, or nobody.  The ElevenLabs SDK reports an ending session as
\* disconnecting, disconnected, onDisconnect, in this order.
DeliverEvent ==
    \E e \in events, throws \in SetMutedThrows :
        LET next == CASE e = "disconnecting" -> {"disconnected"}
                      [] e = "disconnected" -> {"onDisconnect"}
                      [] OTHER -> {}
            w == [World EXCEPT !.events = (@ \ {e}) \cup next]
            heard == cs.mounted /\ (IF e \in VapiEvents THEN cs.kind = "vapi"
                                    ELSE cs.kind = "elevenlabs")
        IN  SetWorld(IF heard THEN handleEvent(w, e, throws) ELSE w)

Next ==
    \/ Render
    \/ EnterProviderClick
    \/ ChangeModeClick
    \/ RetryScannerClick
    \/ ScanDevicesListed
    \/ ScanDecodeStarted
    \/ ScanFrameDecoded
    \/ StaleScanDevicesListed
    \/ StaleScanDecodeStarted
    \/ StaleScanFrameDecoded
    \/ PrimaryClick
    \/ HoldStart
    \/ HoldEnd
    \/ BackClick
    \/ ProbeSettle
    \/ NegResolve
    \/ NegReject
    \/ NegFailedEvent
    \/ StaleProbeSettle
    \/ StaleNegSettle
    \/ VapiRemoteEnd
    \/ VapiError
    \/ ElRemoteEnd
    \/ ElError
    \/ DeliverEvent

Spec == Init /\ [][Next]_vars

(***************************************************************************)
(* agentMap.ts on its own: resolveAgentKey and getAgentByKey applied to    *)
(* the texts of up to MaxLen characters, plain and in the payload forms.   *)
(* givenPayload is the argument, resolvedKey the result of                 *)
(* resolveAgentKey, lookedUp the table, the argument and the result of     *)
(* getAgentByKey.                                                          *)
(***************************************************************************)
\* The characters of the payloads: a letter in both cases, white space, the
\* path separator, the brace and the quote of the object form.
PayloadChars == {"r", "R", " ", "/", "{", "\""}

\* The characters of the keys looked up: the letters of rio, white space.
KeyChars == {"r", "i", "o", "R", "I", "O", " "}

WordsOver(chars, n) == UNION {[1..m -> chars] : m \in 0..n}

\* "talkiewalkie://agent/" + k
SchemePayload(k) == SchemePrefix \o <<"a", "g", "e", "n", "t", "/">> \o k

\* '{"' + field + '":"' + k + '"}'
JsonPayload(field, k) == <<"{", "\"">> \o field \o <<"\"", ":", "\"">> \o k \o <<"\"", "}">>

\* The texts given to the two functions: the words, the inherited names, the
\* words in the scheme form and in the object form (with the agent field,
\* with another field), and each of these between two spaces.
InputPayloads ==
    LET words == WordsOver(PayloadChars, MaxLen)
        base == words \cup WordsOver(KeyChars, MaxLen) \cup InheritedKeys
                    \cup {SchemePayload(k) : k \in words}
                    \cup {JsonPayload(AgentField, k) : k \in words}
                    \cup {JsonPayload(<<"x">>, k) : k \in words}
    IN  base \cup {<<" ">> \o b \o <<" ">> : b \in base}

LookupOf(prov) == IF prov = "elevenlabs" THEN ELEVENLABS_LOOKUP ELSE VAPI_LOOKUP

ResolverInit ==
    /\ app = InitApp
    /\ view = InitApp
    /\ scanner = NoScanner
    /\ staleScanners = {}
    /\ cs = NoCall
    /\ backend = InitBackend
    /\ events = {}
    /\ stale = {}
    /\ apiKey = TRUE
    /\ givenPayload \in InputPayloads
    /\ resolvedKey = Unset
    /\ lookedUp = NoLookup
    /\ permissions = InitPermissions(TRUE)
    /\ videoDevices = <<>>
    /\ scanStart = NoStart

\* resolveAgentKey(payload)
ResolveKey ==
    /\ resolvedKey = Unset
    /\ resolvedKey' = resolveAgentKey(givenPayload)
    /\ UNCHANGED <<app, view, scanner, staleScanners, cs, backend, events, stale, apiKey,
                   givenPayload, lookedUp, permissions, videoDevices, scanStart>>

\* getAgentByKey(lookup, key) for the key resolved, as handleDetection calls it.
LookupResolvedKey ==
    \E prov \in Providers :
        /\ resolvedKey \notin {Unset, Null, <<>>} /\ lookedUp = NoLookup
        /\ lookedUp' = [table |-> prov, key |-> resolvedKey,
                        agent |-> getAgentByKey(LookupOf(prov), resolvedKey)]
        /\ UNCHANGED <<app, view, scanner, staleScanners, cs, backend, events, stale, apiKey,
                       givenPayload, resolvedKey, permissions, videoDevices, scanStart>>

\* getAgentByKey(lookup, key) for the text itself as the key.
LookupGivenKey ==
    \E prov \in Providers :
        /\ resolvedKey = Unset /\ lookedUp = NoLookup
        /\ lookedUp' = [table |-> prov, key |-> givenPayload,
                    agent |-> getAgentByKey(LookupOf(prov), givenPayload)]
        /\ UNCHANGED <<app, view, scanner, staleScanners, cs, backend, events, stale, apiKey,
                       givenPayload, resolvedKey, permissions, videoDevices, scanStart>>

ResolverNext ==
    \/ ResolveKey
    \/ LookupResolvedKey
    \/ LookupGivenKey

ResolverSpec == ResolverInit /\ [][ResolverNext]_vars

MsgMediaUnsupported == "Media devices are not supported in this browser."

MsgRequestFallback == "Unable to request camera/microphone permissions."

\* What getUserMedia({video, audio}) comes to: a stream, or what it throws.
MediaOutcomes == {"stream"} \cup Thrown

\* requestMediaPermissions up to its await.
requestMediaPermissions(p) ==
    IF ~p.mediaSupported THEN [p EXCEPT !.error = MsgMediaUnsupported]
    ELSE [p EXCEPT !.error = NullText, !.acquiring = @ + 1]

\* requestMediaPermissions skipping the refresh when getUserMedia failed.
requestSettled_RefreshOnSuccessOnly(p, outcome) ==
    LET done == [p EXCEPT !.acquiring = @ - 1]
    IN  IF outcome = "stream"
        THEN refreshPermissions([done EXCEPT !.openTracks = (@ + 2) - 2])
        ELSE [done EXCEPT !.error = IF outcome = "not an Error" THEN MsgRequestFallback
                                    ELSE outcome]

\* The rest of requestMediaPermissions, getUserMedia settled: the stream's
\* two tracks are stopped, or the failure becomes the error; finally
\* refreshPermissions is begun.
requestSettled(p, outcome) ==
    LET done == [p EXCEPT !.acquiring = @ - 1]
        tried == IF outcome = "stream"
                 THEN [done EXCEPT !.openTracks = (@ + 2) - 2]
                 ELSE [done EXCEPT !.error = IF outcome = "not an Error"
                                             THEN MsgRequestFallback ELSE outcome]
    IN  refreshPermissions(tried)

(***************************************************************************)
(* The permission states on their own: the mount effect, Refresh Status,   *)
(* the host's answers and the completion of refreshPermissions, on a host  *)
(* with and without the permission query.                                  *)
(***************************************************************************)
\* The permission panel is rendered with the scanner and call stages, not on
\* the home screen.
ShowsPermissions(a) == a.provider # NullText /\ a.stage # "home"

\* App as first rendered, its mount effect not yet run, or with a provider
\* chosen after the effect has begun its refreshPermissions.
PermissionInit ==
    /\ \E a \in {InitApp, enterProvider(InitApp, "vapi")} :
           /\ app = a
           /\ view = a
           /\ scanner = IF WantScanner(a) THEN MountScanner(a.token) ELSE NoScanner
           /\ \E supported, media \in BOOLEAN :
                  LET p == [InitPermissions(supported) EXCEPT !.mediaSupported = media]
                  IN  permissions = IF ShowsPermissions(a)
                                    THEN [refreshPermissions(p) EXCEPT !.effectRan = TRUE]
                                    ELSE p
    /\ staleScanners = {}
    /\ cs = NoCall
    /\ backend = InitBackend
    /\ events = {}
    /\ stale = {}
    /\ apiKey = TRUE
    /\ givenPayload = <<>>
    /\ resolvedKey = Unset
    /\ lookedUp = NoLookup
    /\ videoDevices = <<>>
    /\ scanStart = NoStart

SetPermissions(p) ==
    /\ permissions' = p
    /\ UNCHANGED <<app, view, scanner, staleScanners, cs, backend, events, stale, apiKey,
                   givenPayload, resolvedKey, lookedUp, videoDevices, scanStart>>

\* The effect after the first render calls refreshPermissions.
PermissionsEffect ==
    /\ ~permissions.effectRan
    /\ SetPermissions([refreshPermissions(permissions) EXCEPT !.effectRan = TRUE])

\* Refresh Status, disabled on a host without the permission query.
RefreshClick ==
    /\ ShowsPermissions(view)
    /\ permissions.effectRan
    /\ permissions.supported
    /\ Len(permissions.refreshes) + permissions.acquiring < MaxRefresh
    /\ SetPermissions(refreshPermissions(permissions))

\* Request Camera & Microphone, disabled on a host without getUserMedia.
RequestClick ==
    /\ ShowsPermissions(view)
    /\ permissions.effectRan
    /\ permissions.mediaSupported
    /\ Len(permissions.refreshes) + permissions.acquiring < MaxRefresh
    /\ SetPermissions(requestMediaPermissions(permissions))

\* The host settles the getUserMedia of one request.
MediaSettles ==
    \E outcome \in MediaOutcomes :
        /\ permissions.acquiring > 0
        /\ SetPermissions(requestSettled(permissions, outcome))

\* The host settles one pending query.
QuerySettles ==
    \E i \in 1..Len(permissions.refreshes), name \in MediaPermissionNames,
       outcome \in QueryOutcomes :
        /\ permissions.refreshes[i][name] = "pending"
        /\ SetPermissions([permissions EXCEPT
                              !.refreshes = InFlight([@ EXCEPT ![i][name] = outcome])])

\* Promise.all of a refreshPermissions is fulfilled: both states are set.
RefreshSettles ==
    \E i \in 1..Len(permissions.refreshes) :
        /\ \A name \in MediaPermissionNames : permissions.refreshes[i][name] # "pending"
        /\ SetPermissions(refreshSettled(permissions, i))

PermissionNext ==
    \/ PermissionsEffect
    \/ RefreshClick
    \/ RequestClick
    \/ MediaSettles
    \/ QuerySettles
    \/ RefreshSettles

PermissionSpec == PermissionInit /\ [][PermissionNext]_vars

(***************************************************************************)
(* The start of a Scanner on its own: the devices the host lists, the      *)
(* device start() selects, the decoding it starts.                         *)
(***************************************************************************)
\* The labels of the devices; a device the host lists without a label is
\* given one by its position.
DeviceLabels ==
    { <<"V", "i", "d", "e", "o", " ", "d", "e", "v", "i", "c", "e", " ", "1">>,
      <<"F", "r", "o", "n", "t">>,
      <<"B", "a", "c", "k", " ", "C", "a", "m", "e", "r", "a">>,
      <<"U", "S", "B", " ", "R", "E", "A", "R">>,
      <<"f", "a", "c", "i", "n", "g", " ", "e", "n", "v", "i", "r", "o", "n", "m", "e", "n",
        "t">> }

\* The id of the device listed at position i; a host that has not been
\* granted the camera lists devices with an empty id.
DeviceIds(i) == {"", <<"cam1", "cam2", "cam3">>[i]}

\* What listVideoInputDevices resolves with.
DeviceLists ==
    UNION { { d \in [1..n -> [deviceId : {"", "cam1", "cam2", "cam3"}, label : DeviceLabels]] :
                \A i \in 1..n : d[i].deviceId \in DeviceIds(i) } : n \in 0..MaxDevices }

ScannerStartInit ==
    /\ app = InitApp
    /\ view = InitApp
    /\ scanner = NoScanner
    /\ staleScanners = {}
    /\ cs = NoCall
    /\ backend = InitBackend
    /\ events = {}
    /\ stale = {}
    /\ apiKey = TRUE
    /\ givenPayload = <<>>
    /\ resolvedKey = Unset
    /\ lookedUp = NoLookup
    /\ permissions = InitPermissions(TRUE)
    /\ videoDevices \in DeviceLists
    /\ scanStart = NoStart

\* listVideoInputDevices has resolved: a device is selected, or start()
\* throws the no-camera error.
DevicesListed ==
    /\ scanStart.pc = "enumerating"
    /\ scanStart' = selectDevice(videoDevices)
    /\ UNCHANGED <<app, view, scanner, staleScanners, cs, backend, events, stale, apiKey,
                   givenPayload, resolvedKey, lookedUp, permissions, videoDevices>>

\* decodeFromVideoDevice of the selected device resolves or rejects.
DecodeStarted ==
    \E ok \in BOOLEAN :
        /\ scanStart.pc = "starting"
        /\ scanStart' = IF ok THEN [scanStart EXCEPT !.pc = "listening"]
                        ELSE [scanStart EXCEPT !.pc = "failed", !.message = MsgCameraError]
        /\ UNCHANGED <<app, view, scanner, staleScanners, cs, backend, events, stale, apiKey,
                       givenPayload, resolvedKey, lookedUp, permissions, videoDevices>>

ScannerStartNext ==
    \/ DevicesListed
    \/ DecodeStarted

ScannerStartSpec == ScannerStartInit /\ [][ScannerStartNext]_vars

(***************************************************************************)
(* The claims.                                                             *)
(***************************************************************************)
\* C1: on one call screen, a start call made while the session status is
\* connecting or live is a no-op, also back-to-back before the status
\* reference is refreshed: no step of a screen whose status is connecting or
\* live begins another start call.
C1_StartWhileBusyIsNoOp ==
    [][(cs.mounted /\ cs'.mounted /\ cs.status \in {"connecting", "live"})
          => cs'.nProbe <= cs.nProbe]_vars

\* C2: after every transition of the session status to ended or error the
\* mute flag is true and the hold flag is false, whether or not the backend's
\* set-mute command succeeds.
C2_TerminalForcesMuted ==
    [][(cs.mounted /\ cs'.mounted /\ cs'.status \in {"ended", "error"}
            /\ cs'.status # cs.status)
          => (cs'.isMuted /\ ~cs'.isHolding)]_vars

\* C3: no discarded Scanner holds an open camera stream, the one its pending
\* start acquires after the discard included.
C3_DiscardedScannerReleased == "listening" \notin staleScanners

\* C4: once the call screen is discarded and its pending start calls have
\* settled, no backend session is active.
C4_NoSessionSurvivesDiscard ==
    (~cs.mounted /\ stale = {})
        => (~backend.vActive /\ ~backend.eActive /\ ~backend.eOrphan)

\* C5: a Scanner gives its owner at most one terminal event, and once it has
\* given one its decoding is stopped (after a detection) or never began
\* (after a failure).
C5_OneTerminalEvent ==
    /\ scanner.emits <= 1
    /\ scanner.emits = 1 => scanner.pc \in {"stopped", "failed"}

\* A Scanner that has reported a detection.
C5_Detected == scanner.mounted /\ scanner.emits = 1 /\ scanner.pc = "stopped"

\* C6: App holds an agent only in the call stage, at most one backend session
\* is active or being started, and a Scanner is mounted only with no session
\* active or being started.
C6_OneAgentOneSession ==
    LET sessions == (IF backend.vActive THEN 1 ELSE 0) + (IF backend.eActive THEN 1 ELSE 0)
                        + (IF backend.eOrphan THEN 1 ELSE 0)
                        + cs.nProbe + cs.nNeg + Cardinality(stale)
    IN  /\ app.agent # NoAgent => app.stage = "call"
        /\ sessions <= 1
        /\ scanner.mounted => sessions = 0

\* C7: on a push-to-talk call screen the mute flag is false only while the
\* session status is live.
C7_OpenMicOnlyLive == (cs.mounted /\ ~cs.isMuted) => cs.status = "live"

\* C8: hold-start changes neither the hold flag, the mute flag nor the
\* backend's mute state unless the status is live and the screen is not
\* holding; hold-end changes none of them when the screen is not holding;
\* a repeated hold-start or hold-end gives the state the first one gave.
C8_HoldGuards ==
    cs.mounted =>
        \A throws \in BOOLEAN :
            LET same(w) == /\ w.cs.isHolding = cs.isHolding
                           /\ w.cs.isMuted = cs.isMuted
                           /\ w.backend.vMuted = backend.vMuted
                start1 == handleHoldStart(World, throws)
                end1 == handleHoldEnd(World, throws)
            IN  /\ ~(cs.status = "live" /\ ~cs.isHolding) => same(start1)
                /\ ~cs.isHolding => same(end1)
                /\ handleHoldStart(start1, throws) = start1
                /\ handleHoldEnd(end1, throws) = end1

\* C9: in the call stage App holds an agent, and the call screen that enters
\* the tree is the one of App's provider for that agent's id, with its start
\* call made: connecting with one start call in flight, or, the ElevenLabs
\* key missing, the start refused with the missing-key error.
C9_CallHasAgentAndStarts ==
    [][/\ app'.stage = "call" => app'.agent # NoAgent
       /\ (~cs.mounted /\ cs'.mounted) =>
             /\ view'.stage = "call" /\ view'.agent # NoAgent
             /\ cs'.agentId = view'.agent.id /\ cs'.kind = view'.provider
             /\ cs'.nNeg = 0
             /\ IF cs'.kind = "elevenlabs" /\ ~apiKey
                THEN cs'.status = "error" /\ cs'.error = ErrMissingKey /\ cs'.nProbe = 0
                ELSE cs'.status = "connecting" /\ cs'.nProbe = 1]_vars

\* A call screen just mounted for App's agent, its start call in flight.
C9_Started ==
    /\ app.stage = "call" /\ cs.mounted /\ cs.agentId = app.agent.id
    /\ cs.status = "connecting" /\ cs.statusRef = "idle" /\ cs.nProbe = 1

\* C10: the reset token never decreases; every step that puts App into
\* scanning anew makes it greater; a Scanner enters the tree keyed by the
\* token, under a key greater than every key before; a Scanner that has
\* terminated does nothing more under its key.
C10_TokenIncreases ==
    [][/\ app'.token >= app.token
       /\ (app' # app /\ app'.stage = "scanning" /\ app'.scannerError = NullText)
             => app'.token > app.token
       /\ (scanner' # scanner /\ scanner'.mounted /\ scanner'.pc = "enumerating")
             => /\ scanner'.key = app'.token
                /\ scanner.mounted => scanner'.key > scanner.key
                /\ ~scanner.mounted => app'.token > app.token
       /\ (scanner.mounted /\ scanner.pc \in {"stopped", "failed"}
              /\ scanner'.mounted /\ scanner'.key = scanner.key)
             => scanner' = scanner]_vars

\* A Scanner mounted by the re-entry into scanning of a failed resolution.
C10_Reentered ==
    /\ scanner.mounted /\ scanner.key > 1 /\ app.token = scanner.key
    /\ app.message = MsgUnknown

\* C11: at most one Scanner instance holds an open camera stream: the stream
\* of the Scanner that left the tree is released before the Scanner of the
\* new reset token opens its own.
C11_OneCameraOwner ==
    ~(scanner.mounted /\ scanner.pc = "listening" /\ "listening" \in staleScanners)

\* C12: the resolving stage is transient: the detection handler enters and
\* leaves it in one run, so App is never left in resolving, and wherever a
\* Scanner is decoding the handler ends in call or in scanning for every
\* payload.
C12_ResolvingIsTransient ==
    /\ app.stage # "resolving" /\ view.stage # "resolving"
    /\ (scanner.mounted /\ scanner.pc = "listening") =>
           \A payload \in Payloads :
               handleDetection(app, view.provider, payload).stage \in {"call", "scanning"}

\* The detection handler has run and failed to resolve; App has yet to render.
C12_HandledUnreadable ==
    /\ scanner.mounted /\ scanner.pc = "stopped" /\ view.stage = "scanning"
    /\ app.stage = "scanning" /\ app.message = MsgUnreadable /\ app.token > view.token

\* C13: a payload whose key is the configured entry rio, decoded by the
\* Scanner, takes App from scanning to call with the provider's configured
\* descriptor as the agent and the reset token unchanged; in call the agent
\* is that descriptor, and the call screen is given its id.
C13_ConfiguredKeyReachesCall ==
    LET configured(prov) == IF prov = "elevenlabs" THEN ELEVENLABS_AGENTS[Rio] ELSE AGENTS[Rio]
        rioPayloads ==
            { Rio,
              <<"R", "I", "O">>,
              SchemePrefix \o <<"a", "g", "e", "n", "t", "/">> \o Rio,
              <<"{", "\"">> \o AgentField \o <<"\"", ":", "\"">> \o Rio \o <<"\"", "}">> }
    IN  /\ rioPayloads \subseteq Payloads
        /\ (scanner.mounted /\ scanner.pc = "listening" /\ app.stage = "scanning") =>
               \A payload \in rioPayloads :
                   handleDetection(app, view.provider, payload)
                       = [app EXCEPT !.stage = "call", !.agent = configured(view.provider),
                                     !.message = NullText]
        /\ app.stage = "call" => app.agent = configured(app.provider)
        /\ cs.mounted => /\ view.agent = configured(cs.kind)
                         /\ cs.agentId = configured(cs.kind).id

\* The call screen of the Vapi descriptor of rio, labelled RIO, is shown.
C13_RioCallShown ==
    /\ view.stage = "call" /\ view.provider = "vapi" /\ view.agent.label = "RIO"
    /\ cs.mounted /\ cs.agentId = "1e171fee-c39d-4848-a6fd-2e658a442ff0"

\* C14: a payload that resolves to no key or to no configured agent (an
\* unknown key, a name the lookup table only inherits) sets a message,
\* returns App to scanning with a new reset token and no agent, in whatever
\* state App has come to; and the message stays in every later state until
\* a detection succeeds.
C14_MessageUntilSuccess ==
    [][/\ app' # app =>
             LET failing ==
                     { <<<<"x", "y", "z">>, MsgUnknown>>,
                       <<<<" ">>, MsgUnreadable>>,
                       <<<<"{", "\"">> \o AgentField \o <<"\"", ":", "\"", "\"", "}">>,
                         MsgUnreadable>>,
                       <<<<"{", "x">>, MsgUnreadable>> }
             IN  \A f \in failing :
                     /\ f[1] \in Payloads
                     /\ app'.provider # NullText =>
                            handleDetection(app', app'.provider, f[1])
                                = [app' EXCEPT !.stage = "scanning", !.agent = NoAgent,
                                               !.scannerError = NullText, !.message = f[2],
                                               !.token = @ + 1]
       /\ (app' # app /\ app'.provider # NullText) =>
              \A name \in InheritedKeys :
                  handleDetection(app', app'.provider, name)
                      = [app' EXCEPT !.stage = "scanning", !.agent = NoAgent,
                                     !.scannerError = NullText, !.message = MsgUnknown,
                                     !.token = @ + 1]
       /\ (app.message # NullText /\ app'.stage # "call")
             => app'.message = app.message]_vars

\* C15: a start call sets the status to connecting and clears the error
\* before it probes the microphone; the backend's session-start is invoked
\* only by a probe that succeeded; a failed probe invokes no session-start;
\* and after a failed probe or a rejected session-start the status is error,
\* the error message is not empty and the mute flag is true.
C15_StartProbesThenFailsMuted ==
    [][cs'.mounted =>
          LET probes == IF cs.mounted THEN cs.nProbe ELSE 0
              starts == IF cs.mounted THEN cs.nNeg ELSE 0
              failed(w) == /\ w.cs.status = "error"
                           /\ w.cs.error \notin {NullText, ""}
                           /\ w.cs.isMuted
          IN  /\ cs'.nProbe > probes =>
                     /\ cs'.status = "connecting" /\ cs'.error = NullText
                     /\ cs'.nProbe = probes + 1 /\ cs'.nNeg = starts
              /\ cs'.nNeg > starts => cs'.nNeg = starts + 1 /\ cs'.nProbe = probes - 1
              /\ (cs'.nProbe < probes /\ cs'.nNeg = starts) => failed([cs |-> cs'])
              /\ starts > 0 =>
                     \A thrown \in Thrown, throws \in SetMutedThrows :
                         failed(startCatch([World EXCEPT !.cs.nNeg = @ - 1], thrown, throws))]_vars

C17_EndAlwaysEndsMuted ==
    cs.mounted =>
        \A throws \in SetMutedThrows :
            LET w == endSession(World, throws)
            IN  /\ IF cs.kind = "vapi" THEN ~w.backend.vActive ELSE ~w.backend.eActive
                /\ w.cs.status = "ended"
                /\ w.cs.isMuted

\* C18: when a teardown step fails because there is nothing left to stop
\* (the backend session in endCall / endSession, in the Back handler or in
\* the unmount cleanup; the Scanner's controls in its cleanup after a
\* detection stopped them), no exception leaves the component and the
\* status does not become error.
C18_TeardownFailureSwallowed ==
    /\ (cs.mounted /\ ~(IF cs.kind = "vapi" THEN backend.vActive ELSE backend.eActive)) =>
           /\ ~endSessionEscapes(cs.kind, TRUE)
           /\ ~backEscapes(cs.kind, TRUE)
           /\ ~unmountEscapes(cs.kind, TRUE)
           /\ \A throws \in SetMutedThrows :
                  /\ endSession(World, throws).cs.status # "error"
                  /\ UnmountCall(World, throws).cs.status # "error"
    /\ (scanner.mounted /\ scanner.pc = "stopped") => ~scannerCleanupEscapes(TRUE)

\* C19: whatever the status of the call screen, its handlers of the
\* backend's events set the status to live on connection established, to
\* ended on connection ending or ended, and to error on a failed start and
\* on an error, each with one message that is the same for every payload of
\* the event.
C19_EventsMapToStatus ==
    cs.mounted =>
        \A throws \in SetMutedThrows :
            LET after(e) == handleEvent(World, e, throws).cs
            IN  IF cs.kind = "vapi"
                THEN /\ after("call-start").status = "live"
                     /\ after("call-end").status = "ended"
                     /\ after("call-start-failed").status = "error"
                     /\ after("call-start-failed").error = ErrStartFailed
                     /\ after("error").status = "error"
                     /\ after("error").error = ErrCallError
                ELSE /\ after("connected").status = "live"
                     /\ \A e \in {"disconnecting", "disconnected", "onDisconnect"} :
                            after(e).status = "ended"
                     /\ \A m1, m2 \in SdkMessages \cup {"Server error"} :
                            /\ onError(World, m1).cs.status = "error"
                            /\ onError(World, m1).cs.error = onError(World, m2).cs.error

\* C20: the Back handler of the call screen first releases the hold, the
\* session still there (so the backend is muted before it is stopped), then
\* asks the backend to end the session, then puts App into scanning with
\* the next reset token and no agent; it does so also when the request to
\* end the session fails.
C20_BackHoldEndScan ==
    cs.mounted =>
        \A throws \in SetMutedThrows, stopThrows \in StopThrows :
            LET held == handleHoldEnd(World, throws)
                w == backToScanner(World, view.provider, throws, stopThrows)
            IN  /\ ~held.cs.isHolding
                /\ held.app = app
                /\ held.backend.vActive = backend.vActive
                /\ held.backend.eActive = backend.eActive
                /\ (cs.kind = "vapi" /\ cs.rHolding /\ backend.vActive) => w.backend.vMuted
                /\ IF cs.kind = "vapi" THEN ~w.backend.vActive ELSE ~w.backend.eActive
                /\ w.app = [app EXCEPT !.stage = "scanning", !.agent = NoAgent,
                                       !.scannerError = NullText, !.message = NullText,
                                       !.token = @ + 1]

\* A live Vapi call with the hold on: Back acts on it.
C20_BackWhileHolding ==
    /\ cs.mounted /\ cs.kind = "vapi" /\ cs.status = "live"
    /\ cs.isHolding /\ cs.rHolding /\ backend.vActive /\ ~backend.vMuted

\* C21: at every step that makes the status of the call screen live (the
\* start call succeeding, or the backend's connection-established event)
\* the mute flag is true and the hold flag false.
C21_LiveBeginsMuted ==
    [][(cs.mounted /\ cs'.mounted /\ cs'.status = "live" /\ cs.status # "live")
          => (cs'.isMuted /\ ~cs'.isHolding)]_vars

\* C22: a result of a discarded Scanner (a decoded frame, a start that
\* fails or succeeds after the discard) reaches nobody: the step changes
\* neither App's stage, agent, message and scanner error nor anything else
\* of App, of the mounted Scanner or of the call screen.
C22_StaleScannerIgnored ==
    [][(staleScanners' # staleScanners /\ scanner' = scanner)
          => (app' = app /\ view' = view /\ cs' = cs)]_vars

\* A discarded Scanner is decoding while App is scanning with a new one.
C22_StaleDecodingBesideNew ==
    /\ staleScanners = {"listening"} /\ app.stage = "scanning"
    /\ scanner.mounted /\ scanner.pc = "enumerating" /\ scanner.key = app.token

\* C23: a Scanner that has failed has given App its message as the scanner
\* error; while the error is displayed, with Retry Scanner, no Scanner is in
\* the tree; Retry Scanner clears the error and puts App into scanning with
\* the next reset token, and the render that follows mounts a new Scanner
\* under that token.
C23_FailedShowsRetry ==
    /\ (scanner.mounted /\ scanner.pc = "failed") =>
           app.scannerError \in {MsgNoCamera, MsgCameraError}
    /\ view.scannerError # NullText => view.scannerError \in {MsgNoCamera, MsgCameraError}
    /\ ShowsRetry(view) =>
           /\ ~scanner.mounted
           /\ LET a == restartScanner(app, view.provider, TRUE)
                   w == Reconcile([World EXCEPT !.app = a], FALSE, apiKey)
               IN  /\ a = [app EXCEPT !.stage = "scanning", !.agent = NoAgent,
                                      !.scannerError = NullText, !.message = NullText,
                                      !.token = @ + 1]
                   /\ ~ShowsRetry(w.view)
                   /\ w.scanner = MountScanner(app.token + 1)

\* The camera error is displayed with Retry Scanner.
C23_RetryShown ==
    /\ ShowsRetry(view) /\ view.scannerError = MsgNoCamera /\ view.stage = "scanning"
    /\ ~scanner.mounted

\* C24: Change Mode, from whatever stage, leaves App at the provider
\* selection with no agent, message or scanner error, and the render that
\* follows discards the Scanner and the call screen; with a provider
\* selected the call screen in the tree is that provider's, for the agent of
\* that provider's table, and a decoded payload is resolved in that
\* provider's table, with the same stage, message and reset token as under
\* the other provider.
C24_ProviderChangeAndChoice ==
    LET configured(prov) == IF prov = "elevenlabs" THEN ELEVENLABS_AGENTS[Rio] ELSE AGENTS[Rio]
    IN  /\ (view.provider # NullText /\ view.stage # "home") =>
               \A throws \in SetMutedThrows :
                   LET w == Reconcile([World EXCEPT !.app = clearProvider(app)], throws, apiKey)
                   IN  /\ w.app = [InitApp EXCEPT !.token = app.token]
                       /\ w.view = w.app
                       /\ ~w.scanner.mounted /\ ~w.cs.mounted
        /\ cs.mounted => (cs.kind = view.provider /\ cs.agentId = configured(view.provider).id)
        /\ (scanner.mounted /\ scanner.pc = "listening") =>
               \A payload \in Payloads :
                   LET here == handleDetection(app, view.provider, payload)
                       there == handleDetection(app, CHOOSE q \in Providers : q # view.provider,
                                                payload)
                   IN  /\ here.agent \in {NoAgent, configured(view.provider)}
                       /\ here.agent = NoAgent <=> there.agent = NoAgent
                       /\ [here EXCEPT !.agent = NoAgent] = [there EXCEPT !.agent = NoAgent]

\* Change Mode has discarded a call screen whose start call was pending.
C24_CallDiscardedForHome ==
    /\ app.provider = NullText /\ app.stage = "home" /\ app.token > 0
    /\ ~cs.mounted /\ ~scanner.mounted /\ stale # {}

\* C25: resolveAgentKey gives null for every payload that is empty or made
\* of white space only.
C25_BlankPayloadIsNull ==
    (resolvedKey # Unset /\ Trim(givenPayload) = <<>>) => resolvedKey = Null

\* C26: resolveAgentKey is pure and total: the call gives null or a text for
\* every payload and changes nothing else; for a payload beginning with '{'
\* it gives null unless the payload is the object form with an agent value
\* that is not blank, so null for a malformed one, for one with no agent
\* field and for one whose agent value is empty after trimming.
C26_TotalAndBraceNull ==
    [][resolvedKey' # resolvedKey =>
          /\ UNCHANGED <<app, view, scanner, staleScanners, cs, backend, events, stale,
                         apiKey, givenPayload, lookedUp, permissions, videoDevices,
                         scanStart>>
          /\ \/ resolvedKey' = Null
             \/ /\ resolvedKey' \in Seq({givenPayload[j] : j \in 1..Len(givenPayload)})
                /\ Len(resolvedKey') <= Len(givenPayload)
          /\ LET p == givenPayload
                 agentValue == SubSeq(p, 11, Len(p) - 2)
                 otherValue == SubSeq(p, 7, Len(p) - 2)
                 isAgentForm == Len(p) >= 12 /\ p = JsonPayload(AgentField, agentValue)
                 isOtherForm == Len(p) >= 8 /\ p = JsonPayload(<<"x">>, otherValue)
             IN  /\ (p # <<>> /\ Head(p) = "{") =>
                        \/ resolvedKey' = Null
                        \/ isAgentForm /\ Trim(agentValue) # <<>>
                 /\ isOtherForm => resolvedKey' = Null
                 /\ (isAgentForm /\ Trim(agentValue) = <<>>) => resolvedKey' = Null]_vars

\* A malformed payload, an object form without the agent field and one with
\* a blank agent value have been resolved to null.
C26_MalformedResolved ==
    /\ resolvedKey = Null
    /\ givenPayload \in {<<"{", "r">>, JsonPayload(<<"x">>, <<"r">>),
                          JsonPayload(AgentField, <<" ">>)}

\* C27 as claimed: for every non-empty key k without '/' and without
\* surrounding white space the payloads k, "talkiewalkie://agent/" + k and
\* '{"agent":"' + k + '"}' resolve to k; a scheme-prefixed payload resolves
\* to its trimmed final path segment, to null when that is empty; any other
\* payload resolves to its trimmed text.
C27_ThreeFormsOneKey ==
    resolvedKey # Unset =>
        LET p == givenPayload
            isKey(k) == k # <<>> /\ Trim(k) = k /\ \A i \in 1..Len(k) : k[i] # "/"
            head == SchemePayload(<<>>)
            afterHead == SubSeq(p, Len(head) + 1, Len(p))
            agentValue == SubSeq(p, 11, Len(p) - 2)
            trimmed == Trim(p)
            path == SubSeq(trimmed, Len(SchemePrefix) + 1, Len(trimmed))
            slashes == {i \in 1..Len(path) : path[i] = "/"}
            last == IF slashes = {} THEN 0
                    ELSE CHOOSE i \in slashes : \A j \in slashes : j <= i
            segment == Trim(SubSeq(path, last + 1, Len(path)))
        IN  /\ (isKey(p)) => resolvedKey = p
            /\ (Len(p) > Len(head) /\ SubSeq(p, 1, Len(head)) = head /\ isKey(afterHead))
                   => resolvedKey = afterHead
            /\ (Len(p) >= 12 /\ p = JsonPayload(AgentField, agentValue) /\ isKey(agentValue))
                   => resolvedKey = agentValue
            /\ (Len(trimmed) >= Len(SchemePrefix)
                    /\ SubSeq(trimmed, 1, Len(SchemePrefix)) = SchemePrefix)
                   => resolvedKey = (IF segment = <<>> THEN Null ELSE segment)
            /\ (p # <<>> /\ (trimmed = <<>> \/ Head(trimmed) \notin {"{", "t"}))
                   => resolvedKey = trimmed

\* C27, amended: as claimed, for the plain form only when k does not begin
\* with '{' (such a payload is read as an object), and for the object form
\* only when k has no double quote (which would end the string of the
\* object).
C27_ThreeFormsOfPlainKey ==
    resolvedKey # Unset =>
        LET p == givenPayload
            isKey(k) == k # <<>> /\ Trim(k) = k /\ \A i \in 1..Len(k) : k[i] # "/"
            head == SchemePayload(<<>>)
            afterHead == SubSeq(p, Len(head) + 1, Len(p))
            agentValue == SubSeq(p, 11, Len(p) - 2)
            trimmed == Trim(p)
            path == SubSeq(trimmed, Len(SchemePrefix) + 1, Len(trimmed))
            slashes == {i \in 1..Len(path) : path[i] = "/"}
            last == IF slashes = {} THEN 0
                    ELSE CHOOSE i \in slashes : \A j \in slashes : j <= i
            segment == Trim(SubSeq(path, last + 1, Len(path)))
        IN  /\ (isKey(p)
                    /\ Head(p) # "{") => resolvedKey = p
            /\ (Len(p) > Len(head) /\ SubSeq(p, 1, Len(head)) = head /\ isKey(afterHead))
                   => resolvedKey = afterHead
            /\ (Len(p) >= 12 /\ p = JsonPayload(AgentField, agentValue) /\ isKey(agentValue)
                    /\ \A i \in 1..Len(agentValue) : agentValue[i] # "\"")
                   => resolvedKey = agentValue
            /\ (Len(trimmed) >= Len(SchemePrefix)
                    /\ SubSeq(trimmed, 1, Len(SchemePrefix)) = SchemePrefix)
                   => resolvedKey = (IF segment = <<>> THEN Null ELSE segment)
            /\ (p # <<>> /\ (trimmed = <<>> \/ Head(trimmed) \notin {"{", "t"}))
                   => resolvedKey = trimmed

\* The object form of the key r has been resolved to r.
C27_ObjectFormResolved ==
    /\ givenPayload = JsonPayload(AgentField, <<"r">>)
    /\ resolvedKey = <<"r">>

\* C28: getAgentByKey is an exact lookup: it gives a descriptor only when
\* the lower-cased key is one of the configured keys of the given table,
\* and null for every other key (the empty key, a part of a configured key,
\* any text that is not a configured key).
C28_ExactLookup ==
    lookedUp # NoLookup =>
        LET configured == IF lookedUp.table = "elevenlabs" THEN DOMAIN ELEVENLABS_AGENTS
                          ELSE DOMAIN AGENTS
        IN  IF ToLowerCase(lookedUp.key) \in configured
            THEN lookedUp.agent \in {AGENTS[Rio], ELEVENLABS_AGENTS[Rio]}
            ELSE lookedUp.agent = NoAgent

\* C29: getAgentByKey is case-insensitive: for every table and every key the
\* lookup gives what the lookup of the key's lower-case form gives; RIO
\* gives the descriptor that rio gives, rio being a key of both tables.
C29_CaseInsensitive ==
    (lookedUp # NoLookup /\ lookedUp.key # Null) =>
        LET lookup == LookupOf(lookedUp.table)
        IN  /\ Rio \in DOMAIN lookup
            /\ lookedUp.agent = getAgentByKey(lookup, ToLowerCase(lookedUp.key))
            /\ ToLowerCase(lookedUp.key) = Rio => lookedUp.agent = lookup[Rio]

\* RIO has been looked up in the Vapi table and found.
C29_UpperCaseFound ==
    /\ lookedUp.table = "vapi" /\ lookedUp.key = <<"R", "I", "O">>
    /\ lookedUp.agent = AGENTS[Rio]

\* C30: on a host without the permission query queryPermission gives
\* unsupported and asks the host nothing; on a host with it, a query that
\* fails gives prompt, and any other gives the state the host reports; every
\* query comes to one of the four states; the camera's state comes from the
\* camera's query alone and the microphone's from the microphone's.
C30_QueryPermissionContract ==
    [][LET p == permissions
           q == permissions'
           result(entry) ==
               CASE entry = "unqueried" -> "unsupported"
                 [] entry = "rejected" -> "prompt"
                 [] entry = "undefined" -> "prompt"
                 [] OTHER -> entry
           without(r, i) == SubSeq(r, 1, i - 1) \o SubSeq(r, i + 1, Len(r))
           begun == [name \in MediaPermissionNames |->
                        IF p.supported THEN "pending" ELSE "unqueried"]
       IN  /\ Len(q.refreshes) > Len(p.refreshes) =>
                  /\ \E j \in 1..Len(q.refreshes) :
                         q.refreshes[j] = begun /\ without(q.refreshes, j) = p.refreshes
                  /\ q.camera = p.camera /\ q.microphone = p.microphone
           /\ \A i \in 1..Len(q.refreshes), name \in MediaPermissionNames :
                  /\ ~q.supported => q.refreshes[i][name] = "unqueried"
                  /\ q.supported => q.refreshes[i][name] # "unqueried"
           /\ Len(q.refreshes) < Len(p.refreshes) =>
                  \E i \in 1..Len(p.refreshes) :
                      /\ q.camera = result(p.refreshes[i]["camera"])
                      /\ q.microphone = result(p.refreshes[i]["microphone"])
                      /\ q.camera \in {"granted", "denied", "prompt", "unsupported"}
                      /\ q.microphone \in {"granted", "denied", "prompt", "unsupported"}
           /\ (Len(q.refreshes) = Len(p.refreshes) /\ q.refreshes # p.refreshes) =>
                  /\ q.camera = p.camera /\ q.microphone = p.microphone
                  /\ \E i, j \in 1..Len(p.refreshes), name \in MediaPermissionNames :
                         /\ p.refreshes[i][name] = "pending"
                         /\ q.refreshes[j][name] \in QueryOutcomes
                         /\ q.refreshes[j] = [p.refreshes[i] EXCEPT ![name] = q.refreshes[j][name]]
                         /\ without(q.refreshes, j) = without(p.refreshes, i)]_vars

\* The camera's query has failed and the microphone's has been answered with
\* granted, in a refresh begun by Refresh Status while denied and granted
\* are displayed.
C30_CameraFailedMicrophoneGranted ==
    /\ permissions.supported /\ permissions.effectRan
    /\ permissions.camera = "denied" /\ permissions.microphone = "granted"
    /\ permissions.refreshes
           = <<[name \in MediaPermissionNames |->
                   IF name = "camera" THEN "rejected" ELSE "granted"]>>

C32_PrefersRearElseFirst ==
    scanStart.pc # "enumerating" =>
        LET rear == {i \in 1..Len(videoDevices) : RearPattern(videoDevices[i].label)}
            chosen == IF rear # {} THEN CHOOSE i \in rear : \A j \in rear : i <= j ELSE 1
        IN  IF videoDevices = <<>>
            THEN scanStart = [pc |-> "failed", deviceId |-> "", message |-> MsgNoCamera]
            ELSE /\ scanStart.deviceId = videoDevices[chosen].deviceId
                 /\ scanStart.message # MsgNoCamera

\* C33: a call screen that is live is connected to the session it started
\* itself; events of a session started by a discarded call screen do not
\* drive its status.  In particular a call screen that has begun one start
\* call, which still awaits its microphone probe and so has asked the
\* backend for nothing, is not live.
C33_LiveIsOwnSession ==
    ~(/\ cs.mounted /\ cs.status = "live"
      /\ cs.statusRef = "idle" /\ cs.nProbe = 1 /\ cs.nNeg = 0)

\* C34: a status of ended or error does not become live again unless a start
\* call has been made in between (which passes through connecting): no step
\* takes a mounted call screen from ended or error straight to live.
C34_TerminalNotRevived ==
    [][~(/\ cs.mounted /\ cs'.mounted
         /\ cs.status \in {"ended", "error"}
         /\ cs'.status = "live")]_vars

\* C35: in a mounted call screen the hold flag is true exactly when the mute
\* flag is false, whether or not the backend's set-mute command fails.
C35_HoldMuteLockstep ==
    cs.mounted => (cs.isHolding <=> ~cs.isMuted)

(***************************************************************************)
(* The call screen on its own.  The first states are those in which the    *)
(* Scanner has just decoded rio and handleDetection has stored the agent,  *)
(* App not yet rendered: either the first scan after the provider button,  *)
(* or the scan after a first call screen was left by Back with its start   *)
(* call still awaiting the microphone probe or the backend.  The steps are *)
(* those of the call screen, of the backends and of the discarded start    *)
(* calls.  The environment settles what it has begun: a pending microphone *)
(* probe resolves or rejects, a pending vapi.start or                      *)
(* conversation.startSession resolves, rejects or reports its failure, and *)
(* an emitted backend event reaches the listeners.  The user and the       *)
(* backend's own faults are under no obligation.                           *)
(***************************************************************************)
\* What a discarded call screen has left pending.
LeftBehind == {"nothing", "probe", "negotiation"}

\* App scanning for provider p: after the provider button, and after Back
\* from a call screen when something was left behind.
Scanning(p, left) ==
    IF left = "nothing" THEN enterProvider(InitApp, p)
    ELSE restartScanner(enterProvider(InitApp, p), p, TRUE)

\* The start call a discarded screen of provider p has left in the state
\* left; a start call that returned for the missing key leaves nothing.
LeftPending(p, hasKey, left) ==
    IF left = "nothing" \/ (p = "elevenlabs" /\ ~hasKey) THEN {}
    ELSE IF left = "probe" THEN {IF p = "vapi" THEN "vProbe" ELSE "eProbe"}
    ELSE {IF p = "vapi" THEN "vNeg" ELSE "eNeg"}

CallInit ==
    /\ apiKey \in BOOLEAN
    /\ \E p \in Providers, left \in LeftBehind :
           /\ app = handleDetection(Scanning(p, left), p, Rio)
           /\ view = Scanning(p, left)
           /\ scanner = FrameCallback([MountScanner(Scanning(p, left).token)
                                          EXCEPT !.pc = "listening"])
           /\ stale = LeftPending(p, apiKey, left)
           /\ backend \in {[InitBackend EXCEPT !.vMuted = muted] :
                               muted \in IF left # "nothing" /\ p = "vapi"
                                         THEN BOOLEAN ELSE {FALSE}}
    /\ staleScanners = {}
    /\ cs = NoCall
    /\ events = {}
    /\ givenPayload = <<>>
    /\ resolvedKey = Unset
    /\ lookedUp = NoLookup
    /\ permissions = InitPermissions(TRUE)
    /\ videoDevices = <<>>
    /\ scanStart = NoStart

CallNext ==
    \/ Render
    \/ PrimaryClick
    \/ HoldStart
    \/ HoldEnd
    \/ ProbeSettle
    \/ NegResolve
    \/ NegReject
    \/ NegFailedEvent
    \/ StaleProbeSettle
    \/ StaleNegSettle
    \/ VapiRemoteEnd
    \/ VapiError
    \/ ElRemoteEnd
    \/ ElError
    \/ DeliverEvent

CallSpec ==
    /\ CallInit
    /\ [][CallNext]_vars
    /\ WF_vars(ProbeSettle)
    /\ WF_vars(NegResolve \/ NegReject \/ NegFailedEvent)
    /\ WF_vars(DeliverEvent)

\* C36: under that fairness every state of the call screen with status
\* connecting is followed by one with status live, error or ended.
C36_ConnectingEnds ==
    (cs.mounted /\ cs.status = "connecting")
        ~> (cs.mounted /\ cs.status \in {"live", "error", "ended"})

\* A Vapi start that went through under the disabled primary button: the
\* rendered status is still connecting, the status live, nothing pending.
C36_ConnectedFromConnecting ==
    /\ cs.mounted /\ cs.kind = "vapi"
    /\ cs.statusRef = "connecting" /\ cs.status = "live"
    /\ cs.nProbe = 0 /\ cs.nNeg = 0 /\ events = {} /\ stale = {}

\* C37: in App the stage is home exactly when no provider is selected, an
\* agent is stored only in stage call, and while no provider is selected
\* restartScanner and handleDetection, called from the rendered closures,
\* leave the App state as it is.
C37_HomeIffNoProvider ==
    /\ app.stage = "home" <=> app.provider = NullText
    /\ app.agent # NoAgent => app.stage = "call"
    /\ app.provider = NullText =>
          /\ view.provider = NullText
          /\ \A clearMessage \in BOOLEAN :
                 restartScanner(app, view.provider, clearMessage) = app
          /\ \A payload \in Payloads : handleDetection(app, view.provider, payload) = app

\* Home again by Change Mode, left from a call screen whose start call is
\* still pending.
C37_HomeAfterCall ==
    /\ app.stage = "home" /\ app.provider = NullText /\ app.agent = NoAgent
    /\ app.token > 0 /\ stale # {}

(***************************************************************************)
(* App's flow state under the permission operations and the Scanner's      *)
(* failure.  The first states take App in one of its stages, the mount     *)
(* effect's refreshPermissions settled; the steps are the permission       *)
(* operations, at most MaxOps of them in flight, and the start of the      *)
(* mounted Scanner with App's render after its failure.                    *)
(***************************************************************************)
MaxOps == 1

\* The flow state: what handleScannerError and the permission operations
\* have no setter for.
Flow(a) == <<a.stage, a.agent, a.provider, a.token, a.message>>

\* App at home, scanning after the provider button, scanning again after an
\* unknown code, and in a call.
FlowApps ==
    {InitApp,
     enterProvider(InitApp, "vapi"),
     handleDetection(enterProvider(InitApp, "elevenlabs"), "elevenlabs", <<"x", "y", "z">>),
     handleDetection(enterProvider(InitApp, "vapi"), "vapi", Rio)}

FlowInit ==
    /\ apiKey = TRUE
    /\ \E a \in FlowApps :
           /\ app = a
           /\ view = a
           /\ scanner = IF WantScanner(a) THEN MountScanner(a.token) ELSE NoScanner
           /\ cs = IF WantCall(a)
                   THEN MountCall([app |-> a, view |-> a, scanner |-> NoScanner,
                                   staleScanners |-> {}, cs |-> NoCall,
                                   backend |-> InitBackend, events |-> {}, stale |-> {}],
                                  a.provider, a.agent.id, TRUE).cs
                   ELSE NoCall
           /\ \E supported, media \in BOOLEAN, camera, microphone \in QueryOutcomes :
                  LET p == [InitPermissions(supported) EXCEPT !.mediaSupported = media]
                  IN  permissions =
                          IF ShowsPermissions(a)
                          THEN [p EXCEPT !.effectRan = TRUE,
                                         !.camera = queryPermission(supported, camera),
                                         !.microphone = queryPermission(supported, microphone)]
                          ELSE p
    /\ staleScanners = {}
    /\ backend = InitBackend
    /\ events = {}
    /\ stale = {}
    /\ givenPayload = <<>>
    /\ resolvedKey = Unset
    /\ lookedUp = NoLookup
    /\ videoDevices = <<>>
    /\ scanStart = NoStart

\* The step leaves at most MaxOps permission operations in flight.
WithinOps == Len(permissions'.refreshes) + permissions'.acquiring <= MaxOps

FlowNext ==
    \/ PermissionsEffect /\ WithinOps
    \/ RefreshClick /\ WithinOps
    \/ RequestClick /\ WithinOps
    \/ MediaSettles /\ WithinOps
    \/ QuerySettles /\ WithinOps
    \/ RefreshSettles /\ WithinOps
    \/ ScanDevicesListed
    \/ ScanDecodeStarted
    \/ Render

FlowSpec == FlowInit /\ [][FlowNext]_vars

\* C38: a step of queryPermission, refreshPermissions or
\* requestMediaPermissions leaves App's stage, agent, provider, reset token
\* and message, and the scanner error, as they are; the failure of the
\* Scanner sets the scanner error and nothing else of App, nor anything of
\* the permission state.
C38_FlowUntouched ==
    [][/\ permissions' # permissions => app' = app
       /\ (scanner.mounted /\ scanner.pc # "failed" /\ scanner'.pc = "failed") =>
              /\ Flow(app') = Flow(app)
              /\ app' = [app EXCEPT !.scannerError = app'.scannerError]
              /\ app'.scannerError \in {MsgNoCamera, MsgCameraError}
              /\ permissions' = permissions]_vars

\* The Scanner has failed with the message of an unknown code on display, a
\* request for the devices was denied and its refresh has settled.
C38_FailureAndRequestUnderMessage ==
    /\ app.stage = "scanning" /\ app.message = MsgUnknown
    /\ app.scannerError = MsgCameraError
    /\ permissions.error = "Permission denied"
    /\ permissions.refreshes = <<>> /\ permissions.acquiring = 0
    /\ permissions.camera = "granted"

====
